---- MODULE Spec2Model ----
(***************************************************************************)
(* A model of my-biggie, a fault-injection and load-generation HTTP        *)
(* service.  Two state machines share one clock:                           *)
(*                                                                         *)
(*   SpecSim  the process-wide simulation flags (downtime, latency, packet *)
(*            loss, error injection), the control handlers that arm them   *)
(*            and the interceptor chain every inbound request passes.      *)
(*   SpecJob  one stress request: its handler, the job it runs inline or   *)
(*            detaches, and the resources the job opens and closes.        *)
(*                                                                         *)
(* and four more follow a part of one of them further:                     *)
(*                                                                         *)
(*   SpecDecode  SpecSim's control requests with the decoding of their     *)
(*               bodies (DuckInt, DuckFloat).                              *)
(*   SpecLoop    the jobs of SpecJob that loop over work units.            *)
(*   SpecFan     the fan-out jobs of SpecJob.                              *)
(*   SpecRamp    the ramp-up job of the second end-to-end scenario, whose  *)
(*               deadline lies beyond SpecJob's clock.                     *)
(*                                                                         *)
(* Time is a discrete clock of ticks of 500 ms.  A goroutine may be        *)
(* delayed for any time at any step (the clock may tick whenever it is     *)
(* below MaxTime); a sleep only fixes the earliest tick at which its       *)
(* goroutine continues.  A critical section (Lock, the accesses, Unlock)   *)
(* is one step, as are the statements of one goroutine that touch no       *)
(* shared state.                                                           *)
(***************************************************************************)
EXTENDS Integers, Sequences, FiniteSets, TLC

(* ----------------------------- bounds -------------------------------- *)
\* Number of inbound requests a SpecSim behaviour has room for.
NumReq == 3
\* Largest maintain_second / downtime_second of a control request.
MaxSimMaintain == 1
\* Last tick of the clock.
MaxTime == 3
\* Largest maintain_second of a stress request.
MaxMaintain == 1
\* Largest interval_second of a stress request.
MaxInterval == 1
\* Largest connection_counts of a stress request.
MaxConn == 2
\* Largest increase_per_interval of a stress request.
MaxIncrease == 2
\* Largest number of failures (open, ping, work unit) the environment injects.
MaxFaults == 1
\* Last clock tick of a run of the ramp-up scenario (its deadline is tick 6).
MaxRampTime == 7
\* The work cycles of a job are counted up to this number.
MaxCycles == 2

(* ------------------------ program constants -------------------------- *)
\* time.Second, in clock ticks.
Second == 2
\* One clock tick in units of time.Millisecond.
MsPerTick == 500

Req == 1..NumReq
Routes == {"simple", "metrics", "latency", "packet_loss", "error_injection", "downtime"}
ControlRoutes == {"latency", "packet_loss", "error_injection", "downtime"}
\* latency_ms of a payload.
LatencyVals == {500}
\* loss_percentage of a payload.
LossVals == {50, 100}
\* error_rate of a payload, in hundredths (0.5 is 50).
RateVals == {50}
\* Outcomes of rand.Intn(100), and of rand.Float64() in hundredths.
Rolls == {0, 99}
SimMaintainVals == 1..MaxSimMaintain
\* A request must arrive early enough for a control job's duration to fit the clock.
ArriveBy == MaxTime - MaxSimMaintain * Second

(* ---------------- DuckInt and DuckFloat (part_002) -------------------- *)
\* A JSON value of a request body: a number (n, an integer literal or not),
\* null, or a string, given by the parts that strings.Split(s, ":") yields.
Num(n) == [kind |-> "number", whole |-> TRUE, n |-> n, parts |-> <<>>]
\* A number with a fraction, in hundredths.
Frac(h) == [kind |-> "number", whole |-> FALSE, n |-> h, parts |-> <<>>]
Null == [kind |-> "null", whole |-> FALSE, n |-> 0, parts |-> <<>>]
Str(parts) == [kind |-> "string", whole |-> FALSE, n |-> 0, parts |-> parts]

\* The outcome of a conversion: a value, or an error and its message.
Ok(n) == [ok |-> TRUE, n |-> n, msg |-> ""]
Err(msg) == [ok |-> FALSE, n |-> 0, msg |-> msg]

\* The decimal numerals of the model and the integers they denote.
Numerals == ("0" :> 0) @@ ("1" :> 1) @@ ("2" :> 2) @@ ("500" :> 500) @@ ("-1" :> -1)

\* strconv.Atoi of one part.
Atoi(s) == IF s \in DOMAIN Numerals THEN Ok(Numerals[s]) ELSE Err("invalid syntax")
\* strconv.Atoi of a whole string: a string with a colon is no numeral.
AtoiText(parts) == IF Len(parts) = 1 THEN Atoi(parts[1]) ELSE Err("invalid syntax")
\* strconv.ParseFloat of one part and of a whole string, in hundredths.
ParseFloat(s) == IF s \in DOMAIN Numerals THEN Ok(Numerals[s] * 100) ELSE Err("invalid syntax")
ParseFloatText(parts) == IF Len(parts) = 1 THEN ParseFloat(parts[1]) ELSE Err("invalid syntax")

\* `value == "RANDOM"` and `strings.HasPrefix(value, "RANDOM:")`
IsRandom(parts) == parts = <<"RANDOM">>
HasRandomPrefix(parts) == Len(parts) >= 2 /\ parts[1] = "RANDOM"

\* rand.Intn(n), n > 0: a number of [0, n), taken at its extremes and middle.
Intn(n) == {0, n \div 2, n - 1}
\* rand.Intn(n) panics unless n > 0.
IntnPanics(n) == n <= 0
Panic == [ok |-> FALSE, n |-> 0, msg |-> "panic: invalid argument to Intn"]

\* The upper end of the range is wrongly included.
processRandomInt_Inclusive(parts, defaultStart, defaultEnd) ==
  IF IsRandom(parts)
    THEN IF IntnPanics(defaultEnd - defaultStart) THEN {Panic}
         ELSE {Ok(defaultStart + k) : k \in Intn(defaultEnd - defaultStart)}
  ELSE IF HasRandomPrefix(parts)
    THEN IF Len(parts) # 3 THEN {Err("invalid RANDOM syntax for integer")}
         ELSE IF ~Atoi(parts[2]).ok \/ ~Atoi(parts[3]).ok THEN {Err("invalid syntax")}
         ELSE LET start == Atoi(parts[2]).n
                  end == Atoi(parts[3]).n
              IN  IF start >= end
                    THEN {Err("invalid RANDOM range for integer: start must be less than end")}
                    ELSE {Ok(start + k) : k \in Intn(end - start + 1)}
  ELSE {AtoiText(parts)}
\* part_002:19-44, processRandomInt: the outcomes for one value and the
\* caller's default range.
processRandomInt(parts, defaultStart, defaultEnd) ==
  IF IsRandom(parts)
    THEN IF IntnPanics(defaultEnd - defaultStart) THEN {Panic}
         ELSE {Ok(defaultStart + k) : k \in Intn(defaultEnd - defaultStart)}
  ELSE IF HasRandomPrefix(parts)
    THEN IF Len(parts) # 3 THEN {Err("invalid RANDOM syntax for integer")}
         ELSE IF ~Atoi(parts[2]).ok \/ ~Atoi(parts[3]).ok THEN {Err("invalid syntax")}
         ELSE LET start == Atoi(parts[2]).n
                  end == Atoi(parts[3]).n
              IN  IF start >= end
                    THEN {Err("invalid RANDOM range for integer: start must be less than end")}
                    ELSE {Ok(start + k) : k \in Intn(end - start)}
  ELSE {AtoiText(parts)}

\* part_002:138-161, processRandomValue: the values it may return.  A result
\* is an int (isInt) or a string (text); rand.Intn(n) is taken at its extremes.
processRandomValue(parts) ==
  IF IsRandom(parts)
    THEN {[ok |-> TRUE, isInt |-> FALSE, n |-> 0, text |-> <<"randomValue-N">>, msg |-> ""]}
  ELSE IF HasRandomPrefix(parts)
    THEN IF Len(parts) # 3
           THEN {[ok |-> FALSE, isInt |-> FALSE, n |-> 0, text |-> <<>>,
                  msg |-> "invalid RANDOM syntax"]}
         ELSE IF ~Atoi(parts[2]).ok \/ ~Atoi(parts[3]).ok
           THEN {[ok |-> FALSE, isInt |-> FALSE, n |-> 0, text |-> <<>>,
                  msg |-> "invalid syntax"]}
         ELSE LET start == Atoi(parts[2]).n
                  end == Atoi(parts[3]).n
              IN  IF start >= end
                    THEN {[ok |-> FALSE, isInt |-> FALSE, n |-> 0, text |-> <<>>,
                           msg |-> "invalid RANDOM range: start must be less than end"]}
                    ELSE {[ok |-> TRUE, isInt |-> TRUE, n |-> start + k, text |-> <<>>,
                           msg |-> ""] : k \in {0, end - start - 1}}
  ELSE {[ok |-> TRUE, isInt |-> FALSE, n |-> 0, text |-> parts, msg |-> ""]}

\* part_002:51-84, DuckInt.UnmarshalJSON: the outcomes for one JSON value.
\* json.Unmarshal into an int accepts an integer literal and leaves null at 0.
DuckInt_UnmarshalJSON(tok) ==
  CASE tok.kind = "number" /\ tok.whole -> {Ok(tok.n)}
    [] tok.kind = "null" -> {Ok(0)}
    [] tok.kind = "string" ->
         {IF ~v.ok THEN Err(v.msg)
          ELSE IF v.isInt THEN Ok(v.n)
          ELSE AtoiText(v.text) : v \in processRandomValue(tok.parts)}
    [] OTHER -> {Err("json: cannot unmarshal number into Go value of type string")}

\* part_002:91-133, DuckFloat.UnmarshalJSON: the outcomes, in hundredths.
DuckFloat_UnmarshalJSON(tok) ==
  CASE tok.kind = "number" -> {Ok(IF tok.whole THEN tok.n * 100 ELSE tok.n)}
    [] tok.kind = "null" -> {Ok(0)}
    [] tok.kind = "string" ->
         IF IsRandom(tok.parts) THEN {Ok(h) : h \in {0, 99}}
         ELSE IF HasRandomPrefix(tok.parts)
           THEN IF Len(tok.parts) # 3
                  THEN {Err("invalid RANDOM syntax for DuckFloat")}
                ELSE IF ~ParseFloat(tok.parts[2]).ok \/ ~ParseFloat(tok.parts[3]).ok
                  THEN {Err("invalid syntax")}
                ELSE LET start == ParseFloat(tok.parts[2]).n
                         end == ParseFloat(tok.parts[3]).n
                     IN  IF start >= end
                           THEN {Err("invalid RANDOM range for DuckFloat")}
                           ELSE {Ok(start), Ok(end - 1)}
         ELSE {ParseFloatText(tok.parts)}
    [] OTHER -> {Err("json: cannot unmarshal")}

\* A request body: well-formed JSON or not, and the values of its two fields.
Body(wf, v, m) == [present |-> TRUE, wellFormed |-> wf, value |-> v, maintain |-> m]
\* The request carries no body to decode: its payload is given decoded.
NoBody == [present |-> FALSE]

\* c.ShouldBindJSON(&payload): the value field is a DuckFloat in
\* ErrorInjectionPayload (error_rate), a DuckInt in the others (DowntimePayload
\* has none besides downtime_second); the first field in error fails the whole.
ShouldBindJSON(route, body) ==
  IF ~body.wellFormed THEN {[ok |-> FALSE, value |-> 0, maintain |-> 0,
                             msg |-> "invalid character"]}
  ELSE {IF ~v.ok THEN [ok |-> FALSE, value |-> 0, maintain |-> 0, msg |-> v.msg]
        ELSE IF ~m.ok THEN [ok |-> FALSE, value |-> 0, maintain |-> 0, msg |-> m.msg]
        ELSE [ok |-> TRUE, value |-> v.n, maintain |-> m.n, msg |-> ""] :
          v \in (CASE route = "error_injection" -> DuckFloat_UnmarshalJSON(body.value)
                   [] route = "downtime" -> {Ok(0)}
                   [] OTHER -> DuckInt_UnmarshalJSON(body.value)),
          m \in DuckInt_UnmarshalJSON(body.maintain)}

\* A decoded payload: the route, its value, maintain_second and async.
Payload(route, v, m, a) ==
  [route |-> route, value |-> v, maintain |-> m, async |-> a, body |-> NoBody]

\* A payload as it is sent: its fields are still to be decoded from the body.
RawPayload(route, body, a) ==
  [route |-> route, value |-> 0, maintain |-> 0, async |-> a, body |-> body]

\* The payloads a route decodes.
ValuesOf(route) ==
  CASE route = "latency" -> LatencyVals
    [] route = "packet_loss" -> LossVals
    [] route = "error_injection" -> RateVals
    [] OTHER -> {0}
MaintainOf(route) == IF route \in ControlRoutes THEN SimMaintainVals ELSE {0}
AsyncOf(route) == IF route \in ControlRoutes THEN BOOLEAN ELSE {FALSE}
PayloadsOf(route) ==
  {Payload(route, v, m, a) : v \in ValuesOf(route), m \in MaintainOf(route), a \in AsyncOf(route)}
AnyPayload == UNION {PayloadsOf(route) : route \in Routes}

\* The traffic of a behaviour: the payloads each request may carry, in order of
\* arrival; a request with none never arrives.  Either two requests of any
\* route, or two simulations armed in the background and then a plain request.
Plans ==
  { [r \in Req |-> IF r <= 2 THEN AnyPayload ELSE {}],
    [r \in Req |-> CASE r = 1 -> {Payload("latency", 500, 1, TRUE)}
                     [] r = 2 -> {Payload("error_injection", 50, 1, TRUE)}
                     [] r = 3 -> {Payload("simple", 0, 0, FALSE)}
                     [] OTHER -> {}] }

\* The JSON values sent for a value field, and for maintain_second.
ValueTokens ==
  {Num(500), Frac(50), Null, Str(<<"500">>), Str(<<"abc">>), Str(<<"RANDOM">>),
   Str(<<"RANDOM", "0", "1">>), Str(<<"RANDOM", "2", "1">>), Str(<<"RANDOM", "1", "1">>),
   Str(<<"RANDOM", "1">>), Str(<<"RANDOM", "abc", "2">>)}
MaintainTokens == {Num(1), Str(<<"1">>), Str(<<"RANDOM", "2", "1">>)}

\* The bodies sent to a control route.
RawPayloads ==
  UNION {
    {RawPayload(route, Body(TRUE, v, m), a) :
       route \in {"latency", "error_injection"}, v \in ValueTokens,
       m \in MaintainTokens, a \in BOOLEAN},
    {RawPayload("downtime", Body(TRUE, Null, m), a) : m \in MaintainTokens, a \in BOOLEAN},
    {RawPayload(route, Body(FALSE, Null, Null), FALSE) :
       route \in {"latency", "error_injection", "downtime"}} }

\* Three bodies that do not decode: a range that is not one, in the value and
\* in maintain_second, and a body that is not JSON.
BadPayloads ==
  {RawPayload("latency", Body(TRUE, Str(<<"RANDOM", "2", "1">>), Num(1)), FALSE),
   RawPayload("error_injection", Body(TRUE, Frac(50), Str(<<"RANDOM", "1", "1">>)), TRUE),
   RawPayload("downtime", Body(FALSE, Null, Null), FALSE)}

\* The traffic of SpecDecode: a control request with any body, then one whose
\* body does not decode.
DecodePlans ==
  { [r \in Req |-> CASE r = 1 -> RawPayloads [] r = 2 -> BadPayloads [] OTHER -> {}] }

VARIABLES
  now,                  \* the wall clock, in ticks
  plan,                 \* the traffic of this behaviour
  downtimeActive,       \* concurrency_ddos.go:88
  activeLatencyMs,      \* network_stress.go:16
  latencyExpiry,        \* network_stress.go:17
  activePacketLoss,     \* network_stress.go:18
  packetLossExpiry,     \* network_stress.go:19
  activeErrorRate,      \* error_injection.go:28, in hundredths
  errorInjectionExpiry, \* error_injection.go:29
  rq,                   \* the inbound requests and the jobs they started
  unguarded,            \* flags read or written outside a critical section of their mutex
  pl,                   \* the decoded payload of the stress request
  hpc,                  \* the position of the stress request's handler
  resp,                 \* the status of the response written (0: none yet)
  job,                  \* stressFunc and its like: position and locals
  res,                  \* every resource opened so far: is it open, how often was it closed
  connections,          \* Shape C: the list `connections` / `clients`
  wk,                   \* Shape B: the worker goroutines
  alive,                \* the process is running
  ctxHost,              \* c.Request.Host of the gin.Context the handler was given
  faults,               \* failures injected so far
  configured,           \* the configuration of the external services is present
  code,                 \* the error code of the response written ("": none)
  value,                \* a RANDOM-capable value as written: its colon-separated parts
  field,                \* what reads the value: an environment setting or a DuckInt field
  defaults,             \* the default range the reader passes to processRandomInt
  resolved,             \* the outcome of resolving the value (NoOutcome: not resolved yet)
  logFormat,            \* the LOG_FORMAT setting, as a format
  globalLogFormat,      \* part_003:13 (the empty format until initConfig has run)
  lineOut,              \* the last log line written, its format and the latency it reports
  memoryLeakStore,      \* part_007:22, the sizes in bytes of the blocks kept
  env,                  \* the settings of one database's external service
  cfg                   \* what the configuration getter returned (NoCfg: not called yet)

netFlags == <<activeLatencyMs, latencyExpiry, activePacketLoss, packetLossExpiry>>
errFlags == <<activeErrorRate, errorInjectionExpiry>>
simVars == <<plan, downtimeActive, netFlags, errFlags, rq, unguarded>>

randVars == <<value, field, defaults, resolved>>
logVars == <<logFormat, globalLogFormat, lineOut>>
cfgVars == <<env, cfg>>
fnVars == <<randVars, logVars, memoryLeakStore, cfgVars>>

jobVars == <<pl, hpc, resp, job, res, connections, wk, alive, ctxHost, faults,
             configured, fnVars, code>>

vars == <<now, simVars, jobVars>>

\* No log line has been written.
NoLine == [by |-> "none", format |-> <<>>, latency |-> 0, text |-> <<>>]
\* No value has been resolved.
NoOutcome == [ok |-> FALSE, n |-> 0, msg |-> "none"]
\* No database is configured through the settings.
NoEnv == [db |-> "none", region |-> FALSE, secret |-> "unset", dbinfo |-> "unset",
          host |-> "", port |-> <<"">>]
\* No configuration has been asked for.
NoCfg == [by |-> "none", ok |-> FALSE, source |-> "none", host |-> "", port |-> 0,
          msg |-> ""]
\* No value has been resolved, no log line written, no block leaked and no
\* configuration read.
FnIdle ==
  /\ value = <<>> /\ field = "none" /\ defaults = <<0, 0>>
  /\ resolved = NoOutcome
  /\ logFormat = <<>> /\ globalLogFormat = <<>> /\ lineOut = NoLine
  /\ memoryLeakStore = <<>>
  /\ env = NoEnv /\ cfg = NoCfg

\* A request that has not arrived yet.
\* strings.ToUpper and strings.ToLower, on the texts that have letters to change.
UpperOf == ("invalid_payload" :> "INVALID_PAYLOAD") @@ ("random_error" :> "RANDOM_ERROR")
LowerOf ==
  ("Service is temporarily unavailable" :> "service is temporarily unavailable")
  @@ ("invalid RANDOM syntax" :> "invalid random syntax")
  @@ ("invalid RANDOM range: start must be less than end" :>
        "invalid random range: start must be less than end")
  @@ ("invalid RANDOM syntax for DuckFloat" :> "invalid random syntax for duckfloat")
  @@ ("invalid RANDOM range for DuckFloat" :> "invalid random range for duckfloat")
  @@ ("json: cannot unmarshal number into Go value of type string" :>
        "json: cannot unmarshal number into go value of type string")
  @@ ("RANDOM" :> "random") @@ ("Apache" :> "apache") @@ ("TIME" :> "time")
  @@ ("Status_Code" :> "status_code") @@ ("Latency" :> "latency") @@ ("BOGUS" :> "bogus")
  @@ ("MS" :> "ms")
ToUpper(s) == IF s \in DOMAIN UpperOf THEN UpperOf[s] ELSE s
ToLower(s) == IF s \in DOMAIN LowerOf THEN LowerOf[s] ELSE s

\* No error body has been written.
NoErrBody == [error |-> "", message |-> "", keys |-> {}]
\* part_002:178-187, ErrorJSON: the body written by the handlers and by the
\* error-injection interceptor.
ErrorJSON(errorType, message) ==
  [error |-> ToUpper(errorType), message |-> ToLower(message),
   keys |-> {"error", "message", "request", "requested_at"}]
\* concurrency_ddos.go:136-140, main.go:125-129: the gin.H literal handed to
\* c.AbortWithStatusJSON by the downtime and packet-loss interceptors.
AbortWithStatusJSON(error, message) ==
  [error |-> error, message |-> message, keys |-> {"error", "message", "requested_at"}]

\* The request has drawn no roll in the error-injection interceptor.
NoRoll == -1

NewRequest ==
  [route |-> "simple", pc |-> "new", value |-> 0, maintain |-> 0, async |-> FALSE,
   active |-> FALSE, latency |-> 0, latencyExpires |-> 0, loss |-> 0, lossExpires |-> 0,
   tnow |-> 0, wake |-> 0, rate |-> 0, status |-> 0, err |-> "none",
   trail |-> <<>>, delayed |-> FALSE, jpc |-> "none", jwake |-> 0,
   acked |-> {}, echo |-> 0, body |-> NoBody, bindErr |-> "", errBody |-> NoErrBody,
   roll |-> NoRoll]

(* ------------------- the interceptor chain (main.go) ------------------ *)
\* The downtime interceptor registered after the network interceptor.
MiddlewareOrder_NetworkFirst == <<"network", "downtime", "error_injection", "handler">>

\* main.go:35-37: the interceptors in the order router.Use registered them,
\* then the route handler.  A request's pc names the stage it is about to enter.
MiddlewareOrder == <<"downtime", "network", "error_injection", "handler">>

\* gin's c.Next(): the stage registered after `stage`.
NextPc(stage) ==
  LET i == CHOOSE k \in 1..Len(MiddlewareOrder) : MiddlewareOrder[k] = stage
  IN  MiddlewareOrder[i + 1]

\* The mutex declared to guard a flag: downtimeMutex (concurrency_ddos.go:89),
\* networkStressMutex (network_stress.go:15); error_injection.go:27-30 declares none.
GuardOf(flag) ==
  CASE flag = "downtimeActive" -> "downtimeMutex"
    [] flag \in {"activeLatencyMs", "latencyExpiry", "activePacketLoss", "packetLossExpiry"}
         -> "networkStressMutex"
    [] OTHER -> "no mutex"

\* The flags in `flags` are read or written by a goroutine that holds `held`
\* ("" when its statement is outside every Lock/Unlock pair).
Touch(flags, held) == unguarded \cup {f \in flags : GuardOf(f) # held}

\* A request reaches the router; requests are numbered in their order of arrival.
Arrive(r) ==
  /\ rq[r].pc = "new"
  /\ \A q \in Req : q < r => rq[q].pc # "new"
  /\ now <= ArriveBy
  /\ \E p \in plan[r] :
       rq' = [rq EXCEPT ![r] = [@ EXCEPT !.route = p.route, !.value = p.value,
                 !.maintain = p.maintain, !.async = p.async, !.body = p.body,
                 !.pc = MiddlewareOrder[1],
                 !.acked = {q \in Req : rq[q].route \in ControlRoutes /\ rq[q].status = 200}]]
  /\ UNCHANGED <<now, jobVars, plan, downtimeActive, netFlags, errFlags, unguarded>>

(* ------------- DowntimeMiddleware (concurrency_ddos.go) --------------- *)
\* The interceptor never aborts.
DowntimeAborts_Never(active) == FALSE

\* `if active`: the request is answered 503 and the chain stops.
DowntimeAborts(active) == active

\* concurrency_ddos.go:131-144
DowntimeMiddleware(r) ==
  /\ rq[r].pc = "downtime"
  /\ unguarded' = Touch({"downtimeActive"}, "downtimeMutex")
  /\ rq' = [rq EXCEPT ![r] = [@ EXCEPT
               !.active = downtimeActive,
               !.trail = Append(@, "downtime"),
               !.status = IF DowntimeAborts(downtimeActive) THEN 503 ELSE @,
               !.err = IF DowntimeAborts(downtimeActive) THEN "SERVICE_DOWN" ELSE @,
               !.errBody = IF DowntimeAborts(downtimeActive)
                             THEN AbortWithStatusJSON("SERVICE_DOWN",
                                                      "Service is temporarily unavailable")
                             ELSE @,
               !.pc = IF DowntimeAborts(downtimeActive) THEN "done" ELSE NextPc("downtime")]]
  /\ UNCHANGED <<now, jobVars, plan, downtimeActive, netFlags, errFlags>>

(* ---------------- NetworkStressMiddleware (main.go) ------------------- *)
\* The latency check without the comparison against the expiry.
LatencyApplies_NoExpiry(t, latencyExpires, latency) == latency > 0

\* `now.Before(latencyExpires) && latency > 0`
LatencyApplies(t, latencyExpires, latency) == t < latencyExpires /\ latency > 0
\* The packet-loss check without the comparison against the expiry.
LossApplies_NoExpiry(t, lossExpires, loss) == loss > 0

\* `now.Before(lossExpires) && loss > 0`
LossApplies(t, lossExpires, loss) == t < lossExpires /\ loss > 0
\* `rand.Intn(100) < loss`
LossDrops(roll, loss) == roll < loss

\* main.go:122-133: the packet-loss check on the copied values and the `now`
\* taken before the delay, with the roll `roll`; the request as it leaves.
PacketLossCheck(q, roll) ==
  LET drop == LossApplies(q.tnow, q.lossExpires, q.loss) /\ LossDrops(roll, q.loss)
  IN  [q EXCEPT !.trail = Append(@, "packet_loss"),
                !.status = IF drop THEN 503 ELSE @,
                !.err = IF drop THEN "SERVICE_UNAVAILABLE" ELSE @,
                !.errBody = IF drop
                              THEN AbortWithStatusJSON("SERVICE_UNAVAILABLE",
                                                       "simulated packet loss, request dropped")
                              ELSE @,
                !.pc = IF drop THEN "done" ELSE NextPc("network")]

\* main.go:110-121: the four values are copied under the mutex, `now` is taken
\* and the latency check made.  A delayed request sleeps; another goes on to
\* the packet-loss check.
NetworkStressMiddleware(r) ==
  /\ rq[r].pc = "network"
  /\ unguarded' = Touch({"activeLatencyMs", "latencyExpiry", "activePacketLoss",
                         "packetLossExpiry"}, "networkStressMutex")
  /\ LET q == [rq[r] EXCEPT
                 !.latency = activeLatencyMs, !.latencyExpires = latencyExpiry,
                 !.loss = activePacketLoss, !.lossExpires = packetLossExpiry,
                 !.tnow = now, !.trail = Append(@, "latency")]
     IN  IF LatencyApplies(now, latencyExpiry, activeLatencyMs)
           THEN rq' = [rq EXCEPT ![r] = [q EXCEPT !.delayed = TRUE, !.pc = "ns_sleep",
                                          !.wake = now + (activeLatencyMs \div MsPerTick)]]
           ELSE \E roll \in Rolls : rq' = [rq EXCEPT ![r] = PacketLossCheck(q, roll)]
  /\ UNCHANGED <<now, jobVars, plan, downtimeActive, netFlags, errFlags>>

\* main.go:120: time.Sleep returns; the packet-loss check follows.
NetworkStressMiddleware_Wake(r) ==
  /\ rq[r].pc = "ns_sleep"
  /\ now >= rq[r].wake
  /\ \E roll \in Rolls :
       rq' = [rq EXCEPT ![r] = PacketLossCheck([rq[r] EXCEPT !.wake = 0], roll)]
  /\ UNCHANGED <<now, jobVars, plan, downtimeActive, netFlags, errFlags, unguarded>>

(* ------------ ErrorInjectionMiddleware (error_injection.go) ----------- *)
\* `time.Now().Before(errorInjectionExpiry) && activeErrorRate > 0`
ErrorInjectionApplies_NoExpiry(t, expiry, rate) == rate > 0

ErrorInjectionApplies(t, expiry, rate) == t < expiry /\ rate > 0

\* error_injection.go:107
ErrorInjectionMiddleware_Check(r) ==
  /\ rq[r].pc = "error_injection"
  /\ unguarded' = Touch({"activeErrorRate", "errorInjectionExpiry"}, "")
  /\ rq' = [rq EXCEPT ![r] = [@ EXCEPT
               !.trail = Append(@, "error_injection"),
               !.pc = IF ErrorInjectionApplies(now, errorInjectionExpiry, activeErrorRate)
                      THEN "ei_roll" ELSE NextPc("error_injection")]]
  /\ UNCHANGED <<now, jobVars, plan, downtimeActive, netFlags, errFlags>>

\* error_injection.go:108-112: `rand.Float64() < activeErrorRate`; the rate is
\* read a second time.
ErrorInjectionMiddleware_Roll(r) ==
  /\ rq[r].pc = "ei_roll"
  /\ unguarded' = Touch({"activeErrorRate"}, "")
  /\ \E roll \in Rolls :
       rq' = [rq EXCEPT ![r] = [@ EXCEPT
                !.rate = activeErrorRate, !.roll = roll,
                !.status = IF roll < activeErrorRate THEN 500 ELSE @,
                !.err = IF roll < activeErrorRate THEN "RANDOM_ERROR" ELSE @,
                !.errBody = IF roll < activeErrorRate
                              THEN ErrorJSON("RANDOM_ERROR", "simulated random error injection")
                              ELSE @,
                !.pc = IF roll < activeErrorRate THEN "done" ELSE NextPc("error_injection")]]
  /\ UNCHANGED <<now, jobVars, plan, downtimeActive, netFlags, errFlags>>

(* ----------------------- route handlers ------------------------------ *)
\* simple_api.go: a route with no simulation state.
SimpleHandler(r) ==
  /\ rq[r].pc = "handler"
  /\ rq[r].route = "simple"
  /\ rq' = [rq EXCEPT ![r] = [@ EXCEPT !.trail = Append(@, "handler"), !.status = 200,
                                        !.pc = "done"]]
  /\ UNCHANGED <<now, jobVars, plan, downtimeActive, netFlags, errFlags, unguarded>>

\* system_metrics.go:35-55: the three rates are read into the response outside
\* any critical section, downtimeActive inside one.
SystemMetricsHandler(r) ==
  /\ rq[r].pc = "handler"
  /\ rq[r].route = "metrics"
  /\ unguarded' = (Touch({"activeErrorRate", "activeLatencyMs", "activePacketLoss"}, "")
                   \cup Touch({"downtimeActive"}, "downtimeMutex"))
  /\ rq' = [rq EXCEPT ![r] = [@ EXCEPT !.trail = Append(@, "handler"), !.status = 200,
                                        !.pc = "done"]]
  /\ UNCHANGED <<now, jobVars, plan, downtimeActive, netFlags, errFlags>>

\* The handler goes on after a decoding error as if there had been none.
BindFailed_Ignored(out) == FALSE

\* `if err := c.ShouldBindJSON(&payload); err != nil`
BindFailed(out) == ~out.ok

\* network_stress.go:31-37, error_injection.go:35-39, concurrency_ddos.go:94-99:
\* the handler decodes the body; on an error it answers 400 with the code
\* INVALID_PAYLOAD and the error's message, and returns; otherwise it goes on
\* with the decoded fields.
Handler_Bind(r) ==
  /\ rq[r].pc = "handler"
  /\ rq[r].body.present
  /\ \E out \in ShouldBindJSON(rq[r].route, rq[r].body) :
       rq' = [rq EXCEPT ![r] =
                IF BindFailed(out)
                  THEN [@ EXCEPT !.trail = Append(@, "handler"), !.bindErr = out.msg,
                                 !.status = 400, !.err = "INVALID_PAYLOAD",
                                 !.errBody = ErrorJSON("INVALID_PAYLOAD", out.msg),
                                 !.pc = "done"]
                  ELSE [@ EXCEPT !.value = out.value, !.maintain = out.maintain,
                                 !.bindErr = out.msg, !.body = NoBody]]
  /\ UNCHANGED <<now, jobVars, plan, downtimeActive, netFlags, errFlags, unguarded>>

\* NetworkLatencyHandler and PacketLossHandler: `go setLatency()` or `setLatency()`.
\* The closure is the job; it has not taken its first step yet.
NetworkHandler_Dispatch(r) ==
  /\ rq[r].pc = "handler" /\ ~rq[r].body.present
  /\ rq[r].route \in {"latency", "packet_loss"}
  /\ rq' = [rq EXCEPT ![r] = [@ EXCEPT !.trail = Append(@, "handler"), !.jpc = "set",
                                        !.pc = "respond"]]
  /\ UNCHANGED <<now, jobVars, plan, downtimeActive, netFlags, errFlags, unguarded>>

\* network_stress.go:41-45 and 88-92: under the mutex the value and its expiry
\* are written; time.Sleep(maintainSec) follows.
SetNetwork_Set(r) ==
  /\ rq[r].jpc = "set"
  /\ IF rq[r].route = "latency"
       THEN /\ activeLatencyMs' = rq[r].value
            /\ latencyExpiry' = now + rq[r].maintain * Second
            /\ unguarded' = Touch({"activeLatencyMs", "latencyExpiry"}, "networkStressMutex")
            /\ UNCHANGED <<activePacketLoss, packetLossExpiry>>
       ELSE /\ activePacketLoss' = rq[r].value
            /\ packetLossExpiry' = now + rq[r].maintain * Second
            /\ unguarded' = Touch({"activePacketLoss", "packetLossExpiry"}, "networkStressMutex")
            /\ UNCHANGED <<activeLatencyMs, latencyExpiry>>
  /\ rq' = [rq EXCEPT ![r] = [@ EXCEPT !.jpc = "sleep", !.jwake = now + rq[r].maintain * Second]]
  /\ UNCHANGED <<now, jobVars, plan, downtimeActive, errFlags>>

\* network_stress.go:45-48 and 92-95: time.Sleep returns and, under the mutex,
\* the value is reset to 0.
SetNetwork_Reset(r) ==
  /\ rq[r].jpc = "sleep"
  /\ rq[r].route \in {"latency", "packet_loss"}
  /\ now >= rq[r].jwake
  /\ IF rq[r].route = "latency"
       THEN /\ activeLatencyMs' = 0
            /\ unguarded' = Touch({"activeLatencyMs"}, "networkStressMutex")
            /\ UNCHANGED <<latencyExpiry, activePacketLoss, packetLossExpiry>>
       ELSE /\ activePacketLoss' = 0
            /\ unguarded' = Touch({"activePacketLoss"}, "networkStressMutex")
            /\ UNCHANGED <<activeLatencyMs, latencyExpiry, packetLossExpiry>>
  /\ rq' = [rq EXCEPT ![r].jpc = "done"]
  /\ UNCHANGED <<now, jobVars, plan, downtimeActive, errFlags>>

\* error_injection.go:40-55: the handler itself writes the rate and the expiry,
\* then runs or detaches resetFunc, which starts with time.Sleep(durationSec).
ErrorInjectionHandler_Set(r) ==
  /\ rq[r].pc = "handler" /\ ~rq[r].body.present
  /\ rq[r].route = "error_injection"
  /\ activeErrorRate' = rq[r].value
  /\ errorInjectionExpiry' = now + rq[r].maintain * Second
  /\ unguarded' = Touch({"activeErrorRate", "errorInjectionExpiry"}, "")
  /\ rq' = [rq EXCEPT ![r] = [@ EXCEPT !.trail = Append(@, "handler"), !.jpc = "sleep",
                                        !.jwake = now + rq[r].maintain * Second,
                                        !.pc = "respond"]]
  /\ UNCHANGED <<now, jobVars, plan, downtimeActive, netFlags>>

\* error_injection.go:49-50: time.Sleep returns and resetFunc clears the rate.
ErrorInjection_Reset(r) ==
  /\ rq[r].jpc = "sleep"
  /\ rq[r].route = "error_injection"
  /\ now >= rq[r].jwake
  /\ activeErrorRate' = 0
  /\ unguarded' = Touch({"activeErrorRate"}, "")
  /\ rq' = [rq EXCEPT ![r].jpc = "done"]
  /\ UNCHANGED <<now, jobVars, plan, downtimeActive, netFlags, errorInjectionExpiry>>

\* concurrency_ddos.go:101-116: under the mutex the flag is raised, then
\* resetFunc is run or detached; it starts with time.Sleep(downtimeSec).
DowntimeHandler_Set(r) ==
  /\ rq[r].pc = "handler" /\ ~rq[r].body.present
  /\ rq[r].route = "downtime"
  /\ downtimeActive' = TRUE
  /\ unguarded' = Touch({"downtimeActive"}, "downtimeMutex")
  /\ rq' = [rq EXCEPT ![r] = [@ EXCEPT !.trail = Append(@, "handler"), !.jpc = "sleep",
                                        !.jwake = now + rq[r].maintain * Second,
                                        !.pc = "respond"]]
  /\ UNCHANGED <<now, jobVars, plan, netFlags, errFlags>>

\* concurrency_ddos.go:108-111: time.Sleep returns and, under the mutex,
\* resetFunc lowers the flag.
Downtime_Reset(r) ==
  /\ rq[r].jpc = "sleep"
  /\ rq[r].route = "downtime"
  /\ now >= rq[r].jwake
  /\ downtimeActive' = FALSE
  /\ unguarded' = Touch({"downtimeActive"}, "downtimeMutex")
  /\ rq' = [rq EXCEPT ![r].jpc = "done"]
  /\ UNCHANGED <<now, jobVars, plan, netFlags, errFlags>>

\* `if payload.Async { go f(); ResponseJSON } else { f(); ResponseJSON }`: the
\* response is written at once when the job was detached, and after the job
\* returned when it ran inline.
MayRespond(async, jobDone) == async \/ jobDone

\* ResponseJSON of a control handler.  error_injection.go:58 and 65 echo the
\* global activeErrorRate, not the payload's rate.
ControlHandler_Respond(r) ==
  /\ rq[r].pc = "respond"
  /\ MayRespond(rq[r].async, rq[r].jpc = "done")
  /\ unguarded' = IF rq[r].route = "error_injection"
                    THEN Touch({"activeErrorRate"}, "") ELSE unguarded
  /\ rq' = [rq EXCEPT ![r] = [@ EXCEPT
               !.status = 200, !.pc = "done",
               !.echo = IF rq[r].route = "error_injection" THEN activeErrorRate
                        ELSE rq[r].value]]
  /\ UNCHANGED <<now, jobVars, plan, downtimeActive, netFlags, errFlags>>

(* ====================== one stress request ============================ *)
\* The stress endpoints: the three shapes over a database/sql pool (MySQL;
\* the PostgreSQL and Redshift handlers are the same code) and over a Redis
\* client, and the jobs that open nothing.
Endpoints == {"sql_heavy", "sql_multi", "sql_connection",
              "redis_heavy", "redis_multi", "redis_connection",
              "cpu", "memory", "flood", "crash"}

Backend(ep) ==
  CASE ep \in {"sql_heavy", "sql_multi", "sql_connection"} -> "sql"
    [] ep \in {"redis_heavy", "redis_multi", "redis_connection"} -> "redis"
    [] OTHER -> "none"

\* A: one connection, B: fan-out, C: ramp-up.
Shape(ep) ==
  CASE ep \in {"sql_heavy", "redis_heavy"} -> "A"
    [] ep \in {"sql_multi", "redis_multi"} -> "B"
    [] ep \in {"sql_connection", "redis_connection"} -> "C"
    [] OTHER -> ep

\* maintain_second is decoded as a signed integer and not validated.
MaintainVals == -1..MaxMaintain
\* interval_second is decoded as a signed integer and not validated.
IntervalVals == -1..MaxInterval
ConnVals == 0..MaxConn
IncreaseVals == 0..MaxIncrease
\* memory_percent is decoded as a signed integer and not validated.
MemoryVals == {-1, 30}
\* The Host header of the stress request, and of a request that follows it.
Hosts == {"biggie.example", "other.example"}
Workers == 1..MaxConn

\* A decoded stress payload; a field its endpoint does not decode is 0.
StressPayload(ep, a, m, iv, cc, inc, mem) ==
  [endpoint |-> ep, async |-> a, maintainSec |-> m, intervalSec |-> iv,
   connectionCounts |-> cc, increasePerInterval |-> inc, memoryPercent |-> mem,
   leakSizeMB |-> 0, host |-> "biggie.example"]

StressPayloads ==
  UNION {
    {StressPayload(ep, a, m, iv, 0, 0, 0) :
       ep \in {"sql_heavy", "redis_heavy", "flood"}, a \in BOOLEAN,
       m \in MaintainVals, iv \in IntervalVals},
    {StressPayload(ep, a, m, iv, cc, 0, 0) :
       ep \in {"sql_multi", "redis_multi"}, a \in BOOLEAN,
       m \in MaintainVals, iv \in IntervalVals, cc \in ConnVals},
    {StressPayload(ep, a, m, iv, cc, inc, 0) :
       ep \in {"sql_connection", "redis_connection"}, a \in BOOLEAN,
       m \in MaintainVals, iv \in IntervalVals, cc \in ConnVals, inc \in IncreaseVals},
    {StressPayload(ep, a, m, 0, 0, 0, 0) :
       ep \in {"cpu", "crash"}, a \in BOOLEAN, m \in MaintainVals},
    {StressPayload("memory", a, m, 0, 0, 0, mem) :
       a \in BOOLEAN, m \in MaintainVals, mem \in MemoryVals} }

\* The locals of a job that has not been started.
NoJob ==
  [pc |-> "none", endTime |-> 0, wake |-> 0, currentCount |-> 0, i |-> 0,
   ticker |-> FALSE, tickAt |-> 0, tickPending |-> FALSE, openedThisTick |-> 0,
   cur |-> 0, url |-> "", start |-> 0, served |-> 0, cycles |-> 0]
\* A worker goroutine that has not been started.
\* (ok: the worker has opened and pinged its connection.)
NoWorker == [pc |-> "none", endTime |-> 0, wake |-> 0, cur |-> 0, ok |-> FALSE]

\* time.Now().Add(time.Duration(sec) * time.Second)
Deadline(sec) == now + sec * Second
\* time.Sleep(d) returns at once when d is not positive.
SleepUntil(sec) == IF sec > 0 THEN now + sec * Second ELSE now

\* sql.Open / redis.NewClient: a new open resource, which becomes `cur`.
Opened == Append(res, [open |-> TRUE, closes |-> 0])
\* db.Close() / client.Close() on resource k.
Closed(rs, k) == [rs EXCEPT ![k] = [open |-> FALSE, closes |-> @.closes + 1]]

\* Is the handle closed where the ping fails after a successful open?  Shape A
\* of database/sql returns without (mysql_stress.go:68-71); Shape B has deferred
\* db.Close() (145), Shape C calls it (234); getRedisClient returns nil, err
\* and drops the client in every shape (part_008:60-62).
ClosesOnPingFailure(backend, shape) == backend = "sql" /\ shape \in {"B", "C"}

\* The environment may make a step fail while its budget of failures lasts.
MayFail == faults < MaxFaults

\* A panic: gin.Recovery (main.go:32) recovers it in the handler's goroutine;
\* in a detached goroutine nothing recovers it and the process terminates.
SurvivesPanic(async) == ~async

\* The first position of the handler after decoding the payload.
EntryOf(ep) ==
  CASE Backend(ep) = "sql" -> "config"
    [] ep = "redis_heavy" -> "open"
    [] OTHER -> "dispatch"

\* GetMySQLConfig, GetRedisConfig, GetKafkaConfig (external.go:25-60, 176-192,
\* 203-223) return an error when the service's configuration is absent.
ConfigError == ~configured

\* A client can be made: sql.Open is given the DSN the handler built from the
\* configuration it has read; getRedisClient (part_008:45-49) and
\* getKafkaWriter (part_000:44-48) read the configuration themselves.
OpenHasConfig(backend) == backend = "sql" \/ ~ConfigError

\* The error code of the handler's 500 when making or pinging the client fails:
\* mysql_stress.go:65 and 69, part_008:80.
OpenErrorCode(backend) == IF backend = "sql" THEN "DB_ERROR" ELSE "REDIS_ERROR"

\* GetMySQLConfig (mysql_stress.go:57-61, 127-131, 206-210): 500 CONFIG_ERROR on failure.
Handler_Config ==
  /\ alive /\ hpc = "config"
  /\ IF ConfigError
       THEN /\ resp' = 500
            /\ code' = "CONFIG_ERROR"
            /\ hpc' = "returned"
       ELSE /\ hpc' = IF Shape(pl.endpoint) = "A" THEN "open" ELSE "dispatch"
            /\ UNCHANGED <<resp, code>>
  /\ UNCHANGED <<now, simVars, configured, fnVars, pl, job, res, connections, wk, alive, ctxHost,
                 faults>>

\* Shape A, mysql_stress.go:63-67: sql.Open; part_008:47-58: GetRedisConfig and
\* redis.NewClient inside getRedisClient.  A failure is answered 500.
HeavyHandler_Open ==
  /\ alive /\ hpc = "open"
  /\ \/ /\ OpenHasConfig(Backend(pl.endpoint))
        /\ res' = Opened
        /\ job' = [job EXCEPT !.cur = Len(res) + 1]
        /\ hpc' = "ping"
        /\ UNCHANGED <<resp, code, faults>>
     \/ /\ \/ ~OpenHasConfig(Backend(pl.endpoint)) /\ UNCHANGED faults
           \/ MayFail /\ faults' = faults + 1
        /\ resp' = 500
        /\ code' = OpenErrorCode(Backend(pl.endpoint))
        /\ hpc' = "returned"
        /\ UNCHANGED <<res, job>>
  /\ UNCHANGED <<now, simVars, configured, fnVars, pl, connections, wk, alive, ctxHost>>

\* Shape A, mysql_stress.go:68-71: db.Ping; part_008:60-62 and 78-82: the ping
\* inside getRedisClient.  A failure is answered 500.
HeavyHandler_Ping ==
  /\ alive /\ hpc = "ping"
  /\ \/ /\ hpc' = "dispatch"
        /\ UNCHANGED <<resp, code, faults, res>>
     \/ /\ MayFail
        /\ faults' = faults + 1
        /\ res' = IF ClosesOnPingFailure(Backend(pl.endpoint), "A")
                    THEN Closed(res, job.cur) ELSE res
        /\ resp' = 500
        /\ code' = OpenErrorCode(Backend(pl.endpoint))
        /\ hpc' = "returned"
  /\ UNCHANGED <<now, simVars, configured, fnVars, pl, job, connections, wk, alive, ctxHost>>

\* `if payload.Async { go stressFunc() ... } else { stressFunc() ... }`: the job
\* starts, in its own goroutine or in the handler's.
Handler_Dispatch ==
  /\ alive /\ hpc = "dispatch"
  /\ job' = [job EXCEPT !.pc = "start"]
  /\ hpc' = "respond"
  /\ UNCHANGED <<now, simVars, configured, fnVars, pl, resp, code, res, connections, wk, alive, ctxHost, faults>>

\* ResponseJSON(c, 200, ...), then the handler returns.
Handler_Respond ==
  /\ alive /\ hpc = "respond"
  /\ MayRespond(pl.async, job.pc = "done")
  /\ resp' = 200
  /\ hpc' = "returned"
  /\ UNCHANGED <<now, simVars, configured, fnVars, code, pl, job, res, connections, wk, alive, ctxHost, faults>>

\* main.go:32, gin.Recovery: a panic of the inline job unwinds the handler and
\* is answered 500.
Handler_Recover ==
  /\ alive /\ hpc = "respond"
  /\ ~pl.async /\ job.pc = "panic"
  /\ resp' = 500
  /\ hpc' = "returned"
  /\ UNCHANGED <<now, simVars, configured, fnVars, code, pl, job, res, connections, wk, alive, ctxHost, faults>>

\* After the handler has returned gin puts its Context back into the pool and
\* hands it to a later request, whose *http.Request it then holds.
ContextReuse ==
  /\ alive /\ hpc = "returned"
  /\ \E h \in Hosts : ctxHost' = h
  /\ ctxHost' # ctxHost
  /\ UNCHANGED <<now, simVars, configured, fnVars, pl, hpc, resp, code, job, res, connections, wk, alive, faults>>

(* ------------- Shape A: one connection (stressFunc) ------------------- *)
\* mysql_stress.go:74, part_008:86: endTime is taken when the job starts.
StressFuncA_Start ==
  /\ alive /\ job.pc = "start" /\ Shape(pl.endpoint) = "A"
  /\ job' = [job EXCEPT !.pc = "loop", !.start = now, !.endTime = Deadline(pl.maintainSec)]
  /\ UNCHANGED <<now, simVars, configured, fnVars, pl, hpc, resp, code, res, connections, wk, alive, ctxHost, faults>>

\* The loop entered once more at the deadline itself.
LoopContinues_AtDeadline(t, endTime) == t <= endTime

\* `for time.Now().Before(endTime)`
LoopContinues(t, endTime) == t < endTime

\* A work unit whose error ends the loop.
WorkUnitDone_Abort(j, failed) ==
  IF failed THEN [j EXCEPT !.pc = "close"]
  ELSE [j EXCEPT !.pc = "sleep", !.wake = SleepUntil(pl.intervalSec),
                 !.cycles = IF @ < MaxCycles THEN @ + 1 ELSE @]

\* mysql_stress.go:76-89, concurrency_ddos.go:42-54: the work unit has run;
\* an error of a query or of a request is logged and nothing else, and the job
\* goes on to time.Sleep(interval_second).
WorkUnitDone(j, failed) ==
  [j EXCEPT !.pc = "sleep", !.wake = SleepUntil(pl.intervalSec),
            !.cycles = IF @ < MaxCycles THEN @ + 1 ELSE @]

\* mysql_stress.go:75-90, part_008:87-102: while the deadline is ahead a batch
\* of queries is issued, of which one may fail, and the job sleeps
\* interval_second; the loop then ends.
StressFuncA_Loop ==
  /\ alive /\ job.pc = "loop" /\ Shape(pl.endpoint) = "A"
  /\ IF LoopContinues(now, job.endTime)
       THEN \/ /\ job' = WorkUnitDone(job, FALSE)
               /\ UNCHANGED faults
            \/ /\ MayFail
               /\ faults' = faults + 1
               /\ job' = WorkUnitDone(job, TRUE)
       ELSE /\ job' = [job EXCEPT !.pc = "close"]
            /\ UNCHANGED faults
  /\ UNCHANGED <<now, simVars, configured, fnVars, pl, hpc, resp, code, res, connections, wk, alive, ctxHost>>

\* mysql_stress.go:89, part_008:101: time.Sleep returns.
StressFuncA_Wake ==
  /\ alive /\ job.pc = "sleep" /\ Shape(pl.endpoint) = "A"
  /\ now >= job.wake
  /\ job' = [job EXCEPT !.pc = "loop", !.wake = 0]
  /\ UNCHANGED <<now, simVars, configured, fnVars, pl, hpc, resp, code, res, connections, wk, alive, ctxHost, faults>>

\* mysql_stress.go:91, part_008:103: db.Close() / client.Close().
StressFuncA_Close ==
  /\ alive /\ job.pc = "close" /\ Shape(pl.endpoint) = "A"
  /\ res' = Closed(res, job.cur)
  /\ job' = [job EXCEPT !.pc = "done"]
  /\ UNCHANGED <<now, simVars, configured, fnVars, pl, hpc, resp, code, connections, wk, alive, ctxHost, faults>>

(* ------------------- jobs that open nothing --------------------------- *)
\* part_007:66-67
RunCPUStress_Start ==
  /\ alive /\ job.pc = "start" /\ pl.endpoint = "cpu"
  /\ job' = [job EXCEPT !.pc = "loop", !.endTime = Deadline(pl.maintainSec)]
  /\ UNCHANGED <<now, simVars, configured, fnVars, pl, hpc, resp, code, res, connections, wk, alive, ctxHost, faults>>

\* part_007:74-86: the cycles of 100 ms are shorter than a tick; the loop ends
\* at the first check that finds the deadline reached.
RunCPUStress_Loop ==
  /\ alive /\ job.pc = "loop" /\ pl.endpoint = "cpu"
  /\ ~LoopContinues(now, job.endTime)
  /\ job' = [job EXCEPT !.pc = "done"]
  /\ UNCHANGED <<now, simVars, configured, fnVars, pl, hpc, resp, code, res, connections, wk, alive, ctxHost, faults>>

\* make([]byte, n) panics when n is negative.
MakePanics(n) == n < 0

\* part_007:119-127: the block is allocated and held for maintain_second.
RunMemoryStress_Alloc ==
  /\ alive /\ job.pc = "start" /\ pl.endpoint = "memory"
  /\ IF MakePanics(pl.memoryPercent * 1024 * 1024)
       THEN /\ job' = [job EXCEPT !.pc = "panic"]
            /\ alive' = SurvivesPanic(pl.async)
       ELSE /\ job' = [job EXCEPT !.pc = "sleep", !.wake = SleepUntil(pl.maintainSec)]
            /\ UNCHANGED alive
  /\ UNCHANGED <<now, simVars, configured, fnVars, pl, hpc, resp, code, res, connections, wk, ctxHost, faults>>

\* part_007:127-132: time.Sleep returns and the function does.
RunMemoryStress_Done ==
  /\ alive /\ job.pc = "sleep" /\ pl.endpoint = "memory"
  /\ now >= job.wake
  /\ job' = [job EXCEPT !.pc = "done", !.wake = 0]
  /\ UNCHANGED <<now, simVars, configured, fnVars, pl, hpc, resp, code, res, connections, wk, alive, ctxHost, faults>>

\* The period of the job's ticker, in clock ticks: interval_second in Shape C,
\* 500 ms in runMemoryLeak (part_007:165).
TickerPeriod ==
  IF pl.endpoint = "memory_leak" THEN 500 \div MsPerTick ELSE pl.intervalSec * Second

\* leak_size_mb is decoded as a signed integer and not validated.
LeakSizeVals == {-1, 1, 3}

\* The decoded payloads of POST /stress/memory_leak (part_007:139-146).
LeakPayloads ==
  {[StressPayload("memory_leak", a, m, 0, 0, 0, 0) EXCEPT !.leakSizeMB = mb] :
     a \in BOOLEAN, m \in MaintainVals, mb \in LeakSizeVals}

\* part_007:166-169: the number of allocations, at least one.
Allocations(maintainSec) ==
  LET allocations == (maintainSec * Second * MsPerTick) \div 500
  IN  IF allocations <= 0 THEN 1 ELSE allocations

\* Go's integer division truncates toward zero.
Quo(a, b) == IF a >= 0 THEN a \div b ELSE -((-a) \div b)

\* part_007:163 and 170: totalBytes / allocations.
BytesPerAlloc(leakSizeMB, maintainSec) ==
  Quo(leakSizeMB * 1024 * 1024, Allocations(maintainSec))

\* part_007:163-173: the ticker of 500 ms and the timer `done`, which fires
\* maintain_second from now (at once when that is not positive).
RunMemoryLeak_Start ==
  /\ alive /\ job.pc = "start" /\ pl.endpoint = "memory_leak"
  /\ job' = [job EXCEPT !.pc = "select", !.start = now,
                        !.endTime = Deadline(pl.maintainSec),
                        !.ticker = TRUE, !.tickAt = now + TickerPeriod]
  /\ UNCHANGED <<now, simVars, configured, fnVars, pl, hpc, resp, code, res, connections, wk, alive, ctxHost, faults>>

\* The block of a tick is appended to the store.
Leaked(store, bytesPerAlloc) == Append(store, bytesPerAlloc)

\* part_007:176-183, `case <-ticker.C`: a block is made, filled and appended
\* to memoryLeakStore under memoryLeakMutex.
RunMemoryLeak_Tick ==
  /\ alive /\ job.pc = "select" /\ pl.endpoint = "memory_leak"
  /\ job.tickPending
  /\ IF MakePanics(BytesPerAlloc(pl.leakSizeMB, pl.maintainSec))
       THEN /\ job' = [job EXCEPT !.pc = "panic", !.tickPending = FALSE]
            /\ alive' = SurvivesPanic(pl.async)
            /\ UNCHANGED memoryLeakStore
       ELSE /\ job' = [job EXCEPT !.tickPending = FALSE, !.served = @ + 1]
            /\ memoryLeakStore' =
                 Leaked(memoryLeakStore, BytesPerAlloc(pl.leakSizeMB, pl.maintainSec))
            /\ UNCHANGED alive
  /\ UNCHANGED <<now, simVars, configured, randVars, logVars, cfgVars, pl, hpc, resp,
                 code, res, connections, wk, ctxHost, faults>>

\* part_007:184-187, `case <-done`: the timer has fired; the function returns
\* and the deferred ticker.Stop() runs.  When a tick is waiting as well, select
\* takes either case.
RunMemoryLeak_Done ==
  /\ alive /\ job.pc = "select" /\ pl.endpoint = "memory_leak"
  /\ now >= job.endTime
  /\ job' = [job EXCEPT !.pc = "done", !.ticker = FALSE, !.tickPending = FALSE]
  /\ UNCHANGED <<now, simVars, configured, fnVars, pl, hpc, resp, code, res, connections, wk, alive, ctxHost, faults>>

\* concurrency_ddos.go:37-40: floodFunc takes endTime and builds the URL from
\* c.Request.Host, read from the gin.Context when the job runs.
FloodFunc_Start ==
  /\ alive /\ job.pc = "start" /\ pl.endpoint = "flood"
  /\ job' = [job EXCEPT !.pc = "loop", !.start = now, !.endTime = Deadline(pl.maintainSec),
                        !.url = ctxHost]
  /\ UNCHANGED <<now, simVars, configured, fnVars, pl, hpc, resp, code, res, connections, wk, alive, ctxHost, faults>>

\* concurrency_ddos.go:41-56: a burst of requests, of which one may fail,
\* wg.Wait, time.Sleep.
FloodFunc_Loop ==
  /\ alive /\ job.pc = "loop" /\ pl.endpoint = "flood"
  /\ IF LoopContinues(now, job.endTime)
       THEN \/ /\ job' = WorkUnitDone(job, FALSE)
               /\ UNCHANGED faults
            \/ /\ MayFail
               /\ faults' = faults + 1
               /\ job' = WorkUnitDone(job, TRUE)
       ELSE /\ job' = [job EXCEPT !.pc = "done"]
            /\ UNCHANGED faults
  /\ UNCHANGED <<now, simVars, configured, fnVars, pl, hpc, resp, code, res, connections, wk, alive, ctxHost>>

\* concurrency_ddos.go:54: time.Sleep returns.
FloodFunc_Wake ==
  /\ alive /\ job.pc = "sleep" /\ pl.endpoint = "flood"
  /\ now >= job.wake
  /\ job' = [job EXCEPT !.pc = "loop", !.wake = 0]
  /\ UNCHANGED <<now, simVars, configured, fnVars, pl, hpc, resp, code, res, connections, wk, alive, ctxHost, faults>>

\* error_injection.go:83: crashFunc sleeps maintain_second.
CrashFunc_Sleep ==
  /\ alive /\ job.pc = "start" /\ pl.endpoint = "crash"
  /\ job' = [job EXCEPT !.pc = "sleep", !.wake = SleepUntil(pl.maintainSec)]
  /\ UNCHANGED <<now, simVars, configured, fnVars, pl, hpc, resp, code, res, connections, wk, alive, ctxHost, faults>>

\* error_injection.go:84-85: os.Exit(1).
CrashFunc_Exit ==
  /\ alive /\ job.pc = "sleep" /\ pl.endpoint = "crash"
  /\ now >= job.wake
  /\ alive' = FALSE
  /\ job' = [job EXCEPT !.pc = "exit", !.wake = 0]
  /\ UNCHANGED <<now, simVars, configured, fnVars, pl, hpc, resp, code, res, connections, wk, ctxHost, faults>>

(* ------------------------ Shape B: fan-out ---------------------------- *)
\* mysql_stress.go:135-167, part_008:140-170: one goroutine per connection.
StressFuncB_Spawn ==
  /\ alive /\ job.pc = "start" /\ Shape(pl.endpoint) = "B"
  /\ wk' = [w \in Workers |-> IF w <= pl.connectionCounts
                                THEN [NoWorker EXCEPT !.pc = "open"] ELSE NoWorker]
  /\ job' = [job EXCEPT !.pc = "wait", !.start = now]
  /\ UNCHANGED <<now, simVars, configured, fnVars, pl, hpc, resp, code, res, connections, alive, ctxHost, faults>>

\* mysql_stress.go:140-144: sql.Open; part_008:47-58 and 145-149: GetRedisConfig
\* and redis.NewClient.  On failure the worker returns.
Worker_Open(w) ==
  /\ alive /\ wk[w].pc = "open"
  /\ \/ /\ OpenHasConfig(Backend(pl.endpoint))
        /\ res' = Opened
        /\ wk' = [wk EXCEPT ![w] = [@ EXCEPT !.pc = "ping", !.cur = Len(res) + 1]]
        /\ UNCHANGED faults
     \/ /\ \/ ~OpenHasConfig(Backend(pl.endpoint)) /\ UNCHANGED faults
           \/ MayFail /\ faults' = faults + 1
        /\ wk' = [wk EXCEPT ![w].pc = "exit"]
        /\ UNCHANGED res
  /\ UNCHANGED <<now, simVars, configured, fnVars, pl, hpc, resp, code, job, connections, alive, ctxHost>>

\* mysql_stress.go:145-150, part_008:60-62 and 151: the ping; a worker whose
\* ping succeeds takes its own endTime, another returns.
Worker_Ping(w) ==
  /\ alive /\ wk[w].pc = "ping"
  /\ \/ /\ wk' = [wk EXCEPT ![w] = [@ EXCEPT !.pc = "loop", !.ok = TRUE,
                                            !.endTime = Deadline(pl.maintainSec)]]
        /\ UNCHANGED <<res, faults>>
     \/ /\ MayFail
        /\ faults' = faults + 1
        /\ res' = IF ClosesOnPingFailure(Backend(pl.endpoint), "B")
                    THEN Closed(res, wk[w].cur) ELSE res
        /\ wk' = [wk EXCEPT ![w].pc = "exit"]
  /\ UNCHANGED <<now, simVars, configured, fnVars, pl, hpc, resp, code, job, connections, alive, ctxHost>>

\* mysql_stress.go:151-165, part_008:152-167: the worker's query loop.
Worker_Loop(w) ==
  /\ alive /\ wk[w].pc = "loop"
  /\ wk' = [wk EXCEPT ![w] =
              IF LoopContinues(now, wk[w].endTime)
                THEN [@ EXCEPT !.pc = "sleep", !.wake = SleepUntil(pl.intervalSec)]
                ELSE [@ EXCEPT !.pc = "close"]]
  /\ UNCHANGED <<now, simVars, configured, fnVars, pl, hpc, resp, code, job, res, connections, alive, ctxHost, faults>>

\* mysql_stress.go:164, part_008:166: time.Sleep returns.
Worker_Wake(w) ==
  /\ alive /\ wk[w].pc = "sleep"
  /\ now >= wk[w].wake
  /\ wk' = [wk EXCEPT ![w] = [@ EXCEPT !.pc = "loop", !.wake = 0]]
  /\ UNCHANGED <<now, simVars, configured, fnVars, pl, hpc, resp, code, job, res, connections, alive, ctxHost, faults>>

\* mysql_stress.go:145 (deferred db.Close()), part_008:168 (client.Close()),
\* then the deferred wg.Done().
Worker_Close(w) ==
  /\ alive /\ wk[w].pc = "close"
  /\ res' = Closed(res, wk[w].cur)
  /\ wk' = [wk EXCEPT ![w].pc = "exit"]
  /\ UNCHANGED <<now, simVars, configured, fnVars, pl, hpc, resp, code, job, connections, alive, ctxHost, faults>>

\* wg.Wait() returning as soon as the first worker is through.
AllWorkersExited_First == wk[1].pc \in {"none", "exit"}

\* wg.Wait() returns when every worker has called wg.Done().
AllWorkersExited == \A w \in Workers : wk[w].pc \in {"none", "exit"}

\* mysql_stress.go:168-169, part_008:171-172
StressFuncB_Wait ==
  /\ alive /\ job.pc = "wait"
  /\ AllWorkersExited
  /\ job' = [job EXCEPT !.pc = "done"]
  /\ UNCHANGED <<now, simVars, configured, fnVars, pl, hpc, resp, code, res, connections, wk, alive, ctxHost, faults>>

(* ------------------------ Shape C: ramp-up ---------------------------- *)
\* time.NewTicker(d) panics when d is not positive.
NewTickerPanics(d) == d <= 0

\* mysql_stress.go:214-219, part_008:211-216: endTime, currentCount and the ticker.
StressFuncC_Start ==
  /\ alive /\ job.pc = "start" /\ Shape(pl.endpoint) = "C"
  /\ IF NewTickerPanics(pl.intervalSec * Second)
       THEN /\ job' = [job EXCEPT !.pc = "panic", !.start = now,
                                  !.endTime = Deadline(pl.maintainSec)]
            /\ alive' = SurvivesPanic(pl.async)
       ELSE /\ job' = [job EXCEPT !.pc = "select", !.start = now,
                                  !.endTime = Deadline(pl.maintainSec),
                                  !.currentCount = 0, !.ticker = TRUE,
                                  !.tickAt = now + pl.intervalSec * Second]
            /\ UNCHANGED alive
  /\ UNCHANGED <<now, simVars, configured, fnVars, pl, hpc, resp, code, res, connections, wk, ctxHost, faults>>

\* The runtime's timer: every period a tick is put into ticker.C, a channel of
\* capacity one; a tick that finds the channel full is dropped.
Ticker_Fire ==
  /\ alive /\ job.ticker
  /\ now >= job.tickAt
  /\ job' = [job EXCEPT !.tickPending = TRUE, !.tickAt = @ + TickerPeriod]
  /\ UNCHANGED <<now, simVars, configured, fnVars, pl, hpc, resp, code, res, connections, wk, alive, ctxHost, faults>>

\* mysql_stress.go:225, part_008:221: `case <-ticker.C`.
StressFuncC_Tick ==
  /\ alive /\ job.pc = "select" /\ job.tickPending
  /\ job' = [job EXCEPT !.pc = "ramp", !.tickPending = FALSE, !.i = 0,
                        !.openedThisTick = 0, !.served = @ + 1]
  /\ UNCHANGED <<now, simVars, configured, fnVars, pl, hpc, resp, code, res, connections, wk, alive, ctxHost, faults>>

\* The deadline never found passed.
After_Never(t, endTime) == FALSE

\* `time.Now().After(endTime)`
After(t, endTime) == t > endTime

\* mysql_stress.go:248-252, part_008:239-243: `default`, taken when no tick is
\* waiting; past the deadline the loop is left, before it the job sleeps 100 ms
\* (less than a clock tick) and selects again.
StressFuncC_Default ==
  /\ alive /\ job.pc = "select" /\ ~job.tickPending
  /\ After(now, job.endTime)
  /\ job' = [job EXCEPT !.pc = "hold"]
  /\ UNCHANGED <<now, simVars, configured, fnVars, pl, hpc, resp, code, res, connections, wk, alive, ctxHost, faults>>

\* The inner loop without its bound of increase_per_interval turns.
RampLoopGuard_NoStep(i, increasePerInterval, currentCount, connectionCounts) ==
  currentCount < connectionCounts

\* `i < increasePerInterval && currentCount < connectionCounts`
RampLoopGuard(i, increasePerInterval, currentCount, connectionCounts) ==
  i < increasePerInterval /\ currentCount < connectionCounts

\* A failed open counted as if it had succeeded.
Skipped_Counted(j) == [j EXCEPT !.pc = "ramp", !.i = @ + 1, !.currentCount = @ + 1]

\* `continue` after a failed open or ping: the next turn of the inner loop,
\* with the count and the list as they were.
Skipped(j) == [j EXCEPT !.pc = "ramp", !.i = @ + 1]

\* mysql_stress.go:226-231 and 242-247, part_008:222-227 and 233-238: one turn
\* of the inner loop opens a resource (a failed open is skipped), and after the
\* loop the job leaves the outer loop at the target or past the deadline.
StressFuncC_Ramp ==
  /\ alive /\ job.pc = "ramp"
  /\ IF RampLoopGuard(job.i, pl.increasePerInterval, job.currentCount, pl.connectionCounts)
       THEN \/ /\ OpenHasConfig(Backend(pl.endpoint))
               /\ res' = Opened
               /\ job' = [job EXCEPT !.pc = "ramp_ping", !.cur = Len(res) + 1,
                                     !.openedThisTick = @ + 1]
               /\ UNCHANGED faults
            \/ /\ \/ ~OpenHasConfig(Backend(pl.endpoint)) /\ UNCHANGED faults
                  \/ MayFail /\ faults' = faults + 1
               /\ job' = Skipped(job)
               /\ UNCHANGED res
       ELSE /\ job' = [job EXCEPT !.pc =
                         IF job.currentCount >= pl.connectionCounts \/ After(now, job.endTime)
                           THEN "hold" ELSE "select"]
            /\ UNCHANGED <<res, faults>>
  /\ UNCHANGED <<now, simVars, configured, fnVars, pl, hpc, resp, code, connections, wk, alive, ctxHost>>

\* mysql_stress.go:232-240, part_008:60-62 and 228-231: the ping; the resource
\* is appended to the list under mu and counted, or the turn is skipped.
StressFuncC_Ping ==
  /\ alive /\ job.pc = "ramp_ping"
  /\ \/ /\ connections' = Append(connections, job.cur)
        /\ job' = [job EXCEPT !.pc = "ramp", !.currentCount = @ + 1, !.i = @ + 1]
        /\ UNCHANGED <<res, faults>>
     \/ /\ MayFail
        /\ faults' = faults + 1
        /\ res' = IF ClosesOnPingFailure(Backend(pl.endpoint), "C")
                    THEN Closed(res, job.cur) ELSE res
        /\ job' = Skipped(job)
        /\ UNCHANGED connections
  /\ UNCHANGED <<now, simVars, configured, fnVars, pl, hpc, resp, code, wk, alive, ctxHost>>

\* The hold left out: the list is closed as soon as ramping has stopped.
HoldUntil_NoSleep(endTime) == now

\* `remaining := time.Until(endTime); if remaining > 0 { time.Sleep(remaining) }`
HoldUntil(endTime) == IF endTime - now > 0 THEN endTime ELSE now

\* mysql_stress.go:256-259, part_008:246-249: sleep for what remains until endTime.
StressFuncC_Hold ==
  /\ alive /\ job.pc = "hold"
  /\ job' = [job EXCEPT !.pc = "hold_sleep", !.wake = HoldUntil(job.endTime)]
  /\ UNCHANGED <<now, simVars, configured, fnVars, pl, hpc, resp, code, res, connections, wk, alive, ctxHost, faults>>

\* Close() on every resource of the list.
CloseAll(rs, list) ==
  [k \in DOMAIN rs |->
     LET n == Cardinality({x \in DOMAIN list : list[x] = k})
     IN  IF n = 0 THEN rs[k] ELSE [open |-> FALSE, closes |-> rs[k].closes + n]]

\* mysql_stress.go:261-266, part_008:250-255: under mu every resource of the
\* list is closed; the deferred ticker.Stop() runs as the function returns.
StressFuncC_CloseAll ==
  /\ alive /\ job.pc = "hold_sleep"
  /\ now >= job.wake
  /\ res' = CloseAll(res, connections)
  /\ job' = [job EXCEPT !.pc = "done", !.wake = 0, !.ticker = FALSE, !.tickPending = FALSE]
  /\ UNCHANGED <<now, simVars, configured, fnVars, pl, hpc, resp, code, connections, wk, alive, ctxHost, faults>>

\* The ramp-up requests of the specification's second scenario (5 connections,
\* 2 per second, held for 3 seconds), and the same with a target of 2, which
\* is reached before the deadline.
RampPayloads ==
  {StressPayload(ep, a, 3, 1, cc, 2, 0) :
     ep \in {"sql_connection", "redis_connection"}, a \in BOOLEAN, cc \in {2, 5}}

\* The tick up to which the clock is followed.
Horizon == IF pl \in RampPayloads THEN MaxRampTime ELSE MaxTime

\* The clock advances by one tick.
Tick ==
  /\ now < Horizon
  /\ now' = now + 1
  /\ UNCHANGED <<simVars, jobVars>>

\* No simulation is active and no request has arrived.
FlagsClear ==
  /\ downtimeActive = FALSE
  /\ activeLatencyMs = 0
  /\ latencyExpiry = 0
  /\ activePacketLoss = 0
  /\ packetLossExpiry = 0
  /\ activeErrorRate = 0
  /\ errorInjectionExpiry = 0
  /\ rq = [r \in Req |-> NewRequest]
  /\ unguarded = {}

\* The stress request with payload p has been decoded by its handler.
Decoded(p) ==
  /\ pl = p
  /\ hpc = EntryOf(p.endpoint)
  /\ resp = 0
  /\ job = NoJob
  /\ res = <<>>
  /\ connections = <<>>
  /\ wk = [w \in Workers |-> NoWorker]
  /\ alive = TRUE
  /\ ctxHost = p.host
  /\ faults = 0
  /\ code = ""

\* SpecRandom: one RANDOM-capable value is resolved by the reader of an
\* environment setting (processRandomInt) or by a DuckInt field.
MaxParts == 4
Words == {"RANDOM", "-1", "0", "2", "x"}
RECURSIVE Texts(_)
Texts(n) == IF n = 0 THEN {<<>>}
            ELSE LET shorter == Texts(n - 1)
                 IN  shorter \cup {Append(t, w) : t \in {u \in shorter : Len(u) = n - 1},
                                                    w \in Words}
\* STARTUP_DELAY_SECOND (main.go:20), PORT (config.go:25), REDIS_PORT (external.go:181)
DefaultRanges == {<<1, 5>>, <<1024, 65535>>, <<6379, 6379>>}

InitRandom ==
  /\ now = 0
  /\ configured = TRUE
  /\ plan = [r \in Req |-> {}]
  /\ FlagsClear
  /\ Decoded(StressPayload("cpu", FALSE, 0, 0, 0, 0, 0))
  /\ value \in Texts(MaxParts) \ {<<>>}
  /\ \/ field = "env" /\ defaults \in DefaultRanges
     \/ field = "DuckInt" /\ defaults = <<0, 0>>
  /\ resolved = NoOutcome
  /\ logFormat = <<>> /\ globalLogFormat = <<>> /\ lineOut = NoLine
  /\ memoryLeakStore = <<>>
  /\ env = NoEnv /\ cfg = NoCfg

\* viper.GetString(...) is handed to processRandomInt with the reader's defaults.
ReadEnv ==
  /\ field = "env" /\ resolved = NoOutcome
  /\ resolved' \in processRandomInt(value, defaults[1], defaults[2])
  /\ UNCHANGED <<now, simVars, pl, hpc, resp, job, res, connections, wk, alive, ctxHost,
                 faults, configured, code, value, field, defaults, logVars,
                 memoryLeakStore, cfgVars>>

\* json.Unmarshal of the string into a DuckInt field.
DecodeField ==
  /\ field = "DuckInt" /\ resolved = NoOutcome
  /\ resolved' \in DuckInt_UnmarshalJSON(Str(value))
  /\ UNCHANGED <<now, simVars, pl, hpc, resp, job, res, connections, wk, alive, ctxHost,
                 faults, configured, code, value, field, defaults, logVars,
                 memoryLeakStore, cfgVars>>

NextRandom ==
  \/ ReadEnv
  \/ DecodeField

SpecRandom == InitRandom /\ [][NextRandom]_vars

(* ============ the configuration of the external databases ============= *)
\* GetMySQLConfig, GetPostgresConfig and GetRedshiftConfig are the same code
\* over the settings <X>_SECRET, <X>_DBINFO, <X>_HOST, <X>_PORT; they differ in
\* X, the engine name and the default port.
Databases == {"MYSQL", "POSTGRES", "REDSHIFT"}
\* external.go:44, 96, 148
DefaultPort(db) ==
  CASE db = "MYSQL" -> 3306 [] db = "POSTGRES" -> 5432 [] OTHER -> 5439

\* The host a source names: the credentials of the secret, those of
\* <X>_DBINFO, and <X>_HOST.
HostOf(source) ==
  CASE source = "secret" -> "h1" [] source = "dbinfo" -> "h2" [] OTHER -> "h3"

\* What a getter returns: a configuration, or the error of the source it read.
Config(source, host, port) ==
  [ok |-> TRUE, source |-> source, host |-> host, port |-> port, msg |-> ""]
ConfigErr(source, msg) ==
  [ok |-> FALSE, source |-> source, host |-> "", port |-> 0, msg |-> msg]

\* json.Unmarshal of a source's text into the configuration: the credentials
\* of a well-formed text, an error otherwise.
Unmarshal(content, source) ==
  IF content = "good" THEN Config(source, HostOf(source), 1)
  ELSE ConfigErr(source, "invalid character")

\* external.go:43-60: the individual variables.
FromVariables(e) ==
  IF e.host = "" THEN {ConfigErr("vars", "configuration not found")}
  ELSE {IF r.ok THEN Config("vars", e.host, r.n) ELSE ConfigErr("vars", r.msg) :
          r \in processRandomInt(e.port, DefaultPort(e.db), DefaultPort(e.db))}

\* external.go:25-63 (70-115, 122-167): the first source that is set decides.
GetMySQLConfig(e) ==
  IF e.secret # "unset" /\ e.region THEN {Unmarshal(e.secret, "secret")}
  ELSE IF e.dbinfo # "unset" THEN {Unmarshal(e.dbinfo, "dbinfo")}
  ELSE FromVariables(e)

\* part_000:349-389 (405-445, 461-501): the secret is fetched from the secrets
\* manager, which may fail; a secret that cannot be fetched or decoded is
\* passed over and the next source is read.
GetMySQLConfig_part_000(e) ==
  LET next == IF e.dbinfo # "unset" THEN {Unmarshal(e.dbinfo, "dbinfo")}
              ELSE FromVariables(e)
  IN  IF e.region /\ e.secret # "unset"
        THEN next \cup (IF e.secret = "good" THEN {Unmarshal(e.secret, "secret")} ELSE next)
        ELSE next

\* The settings of one database: AWS_REGION set or not, the secret and
\* <X>_DBINFO unset, well-formed or not, <X>_HOST and <X>_PORT.
Environments ==
  [db : Databases, region : BOOLEAN, secret : {"unset", "good", "bad"},
   dbinfo : {"unset", "good", "bad"}, host : {"", "h3"},
   port : {<<"">>, <<"2">>, <<"RANDOM">>}]

\* mysql_stress.go:57 and its like: a handler asks for the configuration.
ReadConfig ==
  /\ cfg = NoCfg
  /\ \E c \in GetMySQLConfig(env) :
       cfg' = [by |-> "external.go"] @@ c
  /\ UNCHANGED <<now, simVars, pl, hpc, resp, job, res, connections, wk, alive, ctxHost,
                 faults, configured, code, randVars, logVars, memoryLeakStore, env>>

\* The same in the build whose getters are those of part_000.
ReadConfig_part_000 ==
  /\ cfg = NoCfg
  /\ \E c \in GetMySQLConfig_part_000(env) :
       cfg' = [by |-> "part_000"] @@ c
  /\ UNCHANGED <<now, simVars, pl, hpc, resp, job, res, connections, wk, alive, ctxHost,
                 faults, configured, code, randVars, logVars, memoryLeakStore, env>>

\* SpecConfig: the process runs with one set of settings and a handler reads
\* the configuration of its database.
InitConfig ==
  /\ now = 0
  /\ configured = TRUE
  /\ plan = [r \in Req |-> {}]
  /\ FlagsClear
  /\ Decoded(StressPayload("sql_heavy", FALSE, 0, 0, 0, 0, 0))
  /\ value = <<>> /\ field = "none" /\ defaults = <<0, 0>> /\ resolved = NoOutcome
  /\ logFormat = <<>> /\ globalLogFormat = <<>> /\ lineOut = NoLine
  /\ memoryLeakStore = <<>>
  /\ env \in Environments
  /\ cfg = NoCfg

NextConfig ==
  \/ ReadConfig
  \/ ReadConfig_part_000

SpecConfig == InitConfig /\ [][NextConfig]_vars

(* ==================== the log format ================================= *)
\* A format is a sequence of tokens: a placeholder {...}, given by the parts
\* of its content between the colons and the quotes or brackets written
\* around it, or a literal word.
Placeholder(parts, open, close) ==
  [kind |-> "placeholder", parts |-> parts, open |-> open, close |-> close]
Literal(text) == [kind |-> "literal", parts |-> <<text>>, open |-> "", close |-> ""]

\* part_003:16-17
requiredPlaceholders == <<"time", "status_code", "method", "path", "client_ip">>
optionalPlaceholders == <<"latency", "user_agent", "protocol", "request_size", "response_size">>
\* part_003:43, `rand.Intn(3)`: at most two optional placeholders are drawn.
MaxOptional == 2
\* part_003:54, `len(placeholders) < 7`
MaxPlaceholders == 7

EqualFold(a, b) == ToLower(a) = ToLower(b)

\* The duplicate check is left out.
AppendOptional_NoCheck(placeholders, opt) ==
  IF Len(placeholders) < MaxPlaceholders THEN Append(placeholders, opt) ELSE placeholders
\* part_003:46-56: opt is appended unless it is there already or seven are.
AppendOptional(placeholders, opt) ==
  LET already == \E i \in 1..Len(placeholders) : EqualFold(placeholders[i], opt)
  IN  IF ~already /\ Len(placeholders) < MaxPlaceholders
        THEN Append(placeholders, opt) ELSE placeholders

\* part_003:44-57: the loop over the drawn optional placeholders.
RECURSIVE WithOptionals(_, _)
WithOptionals(placeholders, picks) ==
  IF picks = <<>> THEN placeholders
  ELSE WithOptionals(AppendOptional(placeholders, optionalPlaceholders[Head(picks)]),
                     Tail(picks))
\* optCount and the index drawn in each round.
OptionalPicks ==
  UNION {[1..n -> 1..Len(optionalPlaceholders)] : n \in 0..MaxOptional}

\* rand.Shuffle: the order is kept, reversed or rotated.
Shuffles(n) ==
  {[i \in 1..n |-> i], [i \in 1..n |-> n + 1 - i], [i \in 1..n |-> (i % n) + 1]}
Shuffled(placeholders, perm) == [i \in 1..Len(placeholders) |-> placeholders[perm[i]]]

\* part_003:21-27, generateRandomTimeFormat, by the separator drawn; the
\* format with the separator ":" has five parts between colons.
generateRandomTimeFormat(k) ==
  CASE k = 1 -> <<"%Y-%m-%dT%H-%M-%S">>
    [] k = 2 -> <<"%Y/%m/%dT%H/%M/%S">>
    [] k = 3 -> <<"%Y", "%m", "%dT%H", "%M", "%S">>
    [] OTHER -> <<"%Y.%m.%dT%H.%M.%S">>
\* part_003:75, 79, 87-91
latencyUnits == <<"s", "ms", "micros", "ns">>
sizeUnits == <<"b", "kb", "mb", "gb">>
wrappers == <<[open |-> "\"", close |-> "\""], [open |-> "'", close |-> "'"],
              [open |-> "[", close |-> "]"]>>

\* What rand yields for one placeholder: Float64() < 0.5 for the time format
\* (half), the index of the unit or separator (pick), the wrapper (wrap, 0:
\* none) and Float64() < 0.3 for the " - " after it (dash).
Draw == [half : BOOLEAN, pick : 1..4, wrap : 0..3, dash : BOOLEAN]
NoDraw == [half |-> FALSE, pick |-> 1, wrap |-> 0, dash |-> FALSE]
\* The draws for the placeholders of one format: the same for each, or
\* alternating with the draw that adds nothing.
Draws ==
  {[i \in 1..MaxPlaceholders |-> d] : d \in Draw}
  \cup {[i \in 1..MaxPlaceholders |-> IF i % 2 = odd THEN d ELSE NoDraw] :
          d \in Draw, odd \in {0, 1}}

\* part_003:63-94: the unit specifier and the wrapper of one placeholder.
Decorated(ph, d) ==
  LET key == ToLower(ph)
      parts == CASE key = "time" ->
                      IF d.half THEN <<"time">> \o generateRandomTimeFormat(d.pick)
                      ELSE <<"time">>
                 [] key = "latency" -> <<"latency", latencyUnits[d.pick]>>
                 [] key \in {"request_size", "response_size"} -> <<key, sizeUnits[d.pick]>>
                 [] OTHER -> <<ph>>
  IN  IF d.wrap = 0 THEN Placeholder(parts, "", "")
      ELSE Placeholder(parts, wrappers[d.wrap].open, wrappers[d.wrap].close)

\* part_003:97-105: the placeholders from the i-th on, each followed by "-"
\* if so drawn.
RECURSIVE Joined(_, _, _)
Joined(placeholders, draws, i) ==
  IF i > Len(placeholders) THEN <<>>
  ELSE <<Decorated(placeholders[i], draws[i])>>
       \o (IF draws[i].dash THEN <<Literal("-")>> ELSE <<>>)
       \o Joined(placeholders, draws, i + 1)

\* part_003:37-106, generateRandomGlobalLogFormat: the formats it may return.
generateRandomGlobalLogFormat ==
  UNION { LET placeholders == WithOptionals(requiredPlaceholders, picks)
          IN  {Joined(Shuffled(placeholders, perm), draws, 1) :
                 perm \in Shuffles(Len(placeholders)), draws \in Draws}
          : picks \in OptionalPicks }

\* part_003:119-123: the predefined formats.
ApacheFormat ==
  <<Placeholder(<<"client_ip">>, "", ""), Literal("-"), Literal("-"),
    Placeholder(<<"time", "%d/%m/%Y", "%H", "%M", "%S">>, "", ""),
    Placeholder(<<"method">>, "", ""), Placeholder(<<"path">>, "", ""),
    Placeholder(<<"status_code">>, "", ""), Literal("-")>>
NginxFormat ==
  <<Placeholder(<<"client_ip">>, "", ""), Literal("-"),
    Placeholder(<<"time", "%d/%b/%Y", "%H", "%M", "%S">>, "", ""),
    Placeholder(<<"method">>, "", ""), Placeholder(<<"path">>, "", ""),
    Placeholder(<<"status_code">>, "", ""), Placeholder(<<"latency", "ms">>, "", "")>>
FullFormat ==
  <<Placeholder(<<"time">>, "", ""), Placeholder(<<"status_code">>, "", ""),
    Placeholder(<<"method">>, "", ""), Placeholder(<<"path">>, "", ""),
    Placeholder(<<"client_ip">>, "", ""), Placeholder(<<"latency">>, "", ""),
    Placeholder(<<"user_agent">>, "\"", "\""), Placeholder(<<"protocol">>, "", ""),
    Placeholder(<<"request_size">>, "", ""), Placeholder(<<"response_size">>, "", "")>>

\* The setting is the one word `name`, in any case.
Selects(setting, name) ==
  /\ Len(setting) = 1 /\ setting[1].kind = "literal"
  /\ ToLower(setting[1].parts[1]) = name

\* part_003:109-132, initConfig: LOG_FORMAT defaults to apache; a setting
\* that names no predefined format is itself the format.
initConfig ==
  /\ globalLogFormat = <<>>
  /\ LET setting == IF logFormat = <<>> THEN <<Literal("apache")>> ELSE logFormat
     IN  globalLogFormat' \in
           (CASE Selects(setting, "apache") -> {ApacheFormat}
              [] Selects(setting, "nginx") -> {NginxFormat}
              [] Selects(setting, "full") -> {FullFormat}
              [] Selects(setting, "random") -> generateRandomGlobalLogFormat
              [] OTHER -> {setting})
  /\ UNCHANGED <<now, simVars, pl, hpc, resp, job, res, connections, wk, alive, ctxHost,
                 faults, configured, code, randVars, logFormat, lineOut,
                 memoryLeakStore, cfgVars>>

(* ==================== rendering a log line =========================== *)
\* A rendered value: a text, or a number written with its digits after the
\* point (frac), or as the digits of a mantissa and an exponent (1.5e+06 is
\* <<1, 5>> and 6), followed by a unit label.
Text(t) == [kind |-> "text", text |-> t, whole |-> 0, frac |-> <<>>, exp |-> 0]
Number(whole, frac, label) ==
  [kind |-> "number", text |-> label, whole |-> whole, frac |-> frac, exp |-> 0]
Exponent(mantissa, e, label) ==
  [kind |-> "exponent", text |-> label, whole |-> 0, frac |-> mantissa, exp |-> e]
Labelled(v, label) == [v EXCEPT !.text = label]

RECURSIVE GCD(_, _)
GCD(a, b) == IF b = 0 THEN a ELSE GCD(b, a % b)
RECURSIVE Pow10(_)
Pow10(k) == IF k = 0 THEN 1 ELSE 10 * Pow10(k - 1)
\* The decimal digits of a natural number.
RECURSIVE DigitSeq(_)
DigitSeq(q) == IF q < 10 THEN <<q>> ELSE Append(DigitSeq(q \div 10), q % 10)
\* The digits of r / d after the point (r < d, d a product of twos and fives).
RECURSIVE FracDigits(_, _)
FracDigits(r, d) ==
  IF r = 0 THEN <<>> ELSE <<(r * 10) \div d>> \o FracDigits((r * 10) % d, d)
RECURSIVE LeadingZeros(_)
LeadingZeros(ds) == IF ds = <<>> \/ Head(ds) # 0 THEN 0 ELSE 1 + LeadingZeros(Tail(ds))
RECURSIVE WithoutTrailingZeros(_)
WithoutTrailingZeros(ds) ==
  IF Len(ds) > 1 /\ ds[Len(ds)] = 0 THEN WithoutTrailingZeros(SubSeq(ds, 1, Len(ds) - 1))
  ELSE ds
\* ds, with zeros in front up to the length k.
RECURSIVE Padded(_, _)
Padded(ds, k) == IF Len(ds) >= k THEN ds ELSE Padded(<<0>> \o ds, k)

\* fmt.Sprintf("%g", n / d): the shortest digits, in exponent form if the
\* decimal exponent is below -4 or at least 6.
FormatG(n0, d0) ==
  LET g == GCD(n0, d0)
      n == n0 \div g
      d == d0 \div g
      whole == n \div d
      frac == FracDigits(n % d, d)
      zeros == LeadingZeros(frac)
  IN  IF whole > 0
        THEN IF Len(DigitSeq(whole)) > 6
               THEN Exponent(WithoutTrailingZeros(DigitSeq(whole) \o frac),
                             Len(DigitSeq(whole)) - 1, "")
               ELSE Number(whole, frac, "")
      ELSE IF frac # <<>> /\ zeros >= 4
        THEN Exponent(SubSeq(frac, zeros + 1, Len(frac)), 0 - (zeros + 1), "")
      ELSE Number(0, frac, "")
\* fmt.Sprintf("%.<k>f", n / d): k digits after the point, rounded.
FormatFixed(n0, d0, k) ==
  LET g == GCD(n0, d0)
      n == n0 \div g
      d == d0 \div g
      r == (n % d) * Pow10(k)
      scaled == (r \div d) + (IF 2 * (r % d) >= d THEN 1 ELSE 0)
  IN  IF scaled = Pow10(k) THEN Number((n \div d) + 1, Padded(<<>>, k), "")
      ELSE Number(n \div d, IF k = 0 THEN <<>> ELSE Padded(DigitSeq(scaled), k), "")
\* strconv.Itoa, strconv.FormatInt, "%d"
Itoa(n) == Number(n, <<>>, "")

\* The request being logged: what the gin.Context yields.
Context ==
  [status |-> 200, method |-> "GET", path |-> "/simple/foo", clientIP |-> "10.0.0.5",
   userAgent |-> "curl/7.68.0", proto |-> "HTTP/1.1", contentLength |-> 1536, size |-> 512]
\* time.Since(start), in nanoseconds.
Latencies == {1000000000, 1500000}
\* now.Format(layout): the time written in the layout of the unit specifier
\* (RFC 3339 without one).
TimeText(unitSpec) ==
  [kind |-> "time", text |-> IF unitSpec = <<>> THEN "RFC3339" ELSE unitSpec[1],
   whole |-> Len(unitSpec), frac |-> <<>>, exp |-> 0]

\* strings.SplitN(content, ":", 2): the key, and the unit specifier.
KeyOf(parts) == ToLower(parts[1])
UnitSpecOf(parts) == Tail(parts)
\* strings.ToLower(unitSpec) as one word ("": none, or one with a colon in it)
UnitOf(parts) == IF Len(parts) = 2 THEN ToLower(parts[2]) ELSE ""

Unsupported == [ok |-> FALSE, val |-> Text("")]
Resolved(v) == [ok |-> TRUE, val |-> v]

\* logger_middleware.go:86-125: request_size and response_size.
SizeText(size, unit) ==
  CASE unit = "kb" -> FormatG(size, 1024)
    [] unit = "mb" -> FormatG(size, 1024 * 1024)
    [] unit = "gb" -> FormatG(size, 1024 * 1024 * 1024)
    [] OTHER -> IF size >= 1024 * 1024 * 1024
                  THEN Labelled(FormatG(size, 1024 * 1024 * 1024), "GB")
                ELSE IF size >= 1024 * 1024 THEN Labelled(FormatG(size, 1024 * 1024), "MB")
                ELSE IF size >= 1024 THEN Labelled(FormatG(size, 1024), "KB")
                ELSE Labelled(Itoa(size), "B")

\* The key is compared as written.
resolvePlaceholder_CaseSensitive(parts, c, latency) ==
  LET key == parts[1]
      unit == UnitOf(parts)
  IN  CASE key = "time" -> Resolved(TimeText(UnitSpecOf(parts)))
        [] key = "status_code" -> Resolved(Itoa(c.status))
        [] key = "method" -> Resolved(Text(c.method))
        [] key = "path" -> Resolved(Text(c.path))
        [] key = "client_ip" -> Resolved(Text(c.clientIP))
        [] key = "latency" ->
             Resolved(CASE unit = "ns" -> FormatG(latency, 1)
                        [] unit = "mcs" -> FormatG(latency, 1000)
                        [] unit = "ms" -> FormatG(latency, 1000000)
                        [] unit = "s" -> FormatG(latency, 1000000000)
                        [] OTHER ->
                             IF latency >= 1000000000
                               THEN Labelled(FormatG(latency, 1000000000), "s")
                             ELSE IF latency >= 1000000
                               THEN Labelled(FormatG(latency, 1000000), "ms")
                             ELSE IF latency >= 1000
                               THEN Labelled(FormatG(latency, 1000), "us")
                             ELSE Labelled(FormatG(latency, 1), "ns"))
        [] key = "user_agent" -> Resolved(Text(c.userAgent))
        [] key = "protocol" -> Resolved(Text(c.proto))
        [] key = "request_size" -> Resolved(SizeText(c.contentLength, unit))
        [] key = "response_size" -> Resolved(SizeText(c.size, unit))
        [] OTHER -> Unsupported
\* logger_middleware.go:35-130, resolvePlaceholder
resolvePlaceholder(parts, c, latency) ==
  LET key == KeyOf(parts)
      unit == UnitOf(parts)
  IN  CASE key = "time" -> Resolved(TimeText(UnitSpecOf(parts)))
        [] key = "status_code" -> Resolved(Itoa(c.status))
        [] key = "method" -> Resolved(Text(c.method))
        [] key = "path" -> Resolved(Text(c.path))
        [] key = "client_ip" -> Resolved(Text(c.clientIP))
        [] key = "latency" ->
             Resolved(CASE unit = "ns" -> FormatG(latency, 1)
                        [] unit = "mcs" -> FormatG(latency, 1000)
                        [] unit = "ms" -> FormatG(latency, 1000000)
                        [] unit = "s" -> FormatG(latency, 1000000000)
                        [] OTHER ->
                             IF latency >= 1000000000
                               THEN Labelled(FormatG(latency, 1000000000), "s")
                             ELSE IF latency >= 1000000
                               THEN Labelled(FormatG(latency, 1000000), "ms")
                             ELSE IF latency >= 1000
                               THEN Labelled(FormatG(latency, 1000), "us")
                             ELSE Labelled(FormatG(latency, 1), "ns"))
        [] key = "user_agent" -> Resolved(Text(c.userAgent))
        [] key = "protocol" -> Resolved(Text(c.proto))
        [] key = "request_size" -> Resolved(SizeText(c.contentLength, unit))
        [] key = "response_size" -> Resolved(SizeText(c.size, unit))
        [] OTHER -> Unsupported

\* part_005:64-104: request_size and response_size, with three decimals.
SizeText_part_005(size, unit) ==
  CASE unit = "kb" -> FormatFixed(size, 1024, 3)
    [] unit = "mb" -> FormatFixed(size, 1024 * 1024, 3)
    [] unit = "gb" -> FormatFixed(size, 1024 * 1024 * 1024, 3)
    [] OTHER -> IF size >= 1024 * 1024 * 1024
                  THEN Labelled(FormatFixed(size, 1024 * 1024 * 1024, 3), "GB")
                ELSE IF size >= 1024 * 1024
                  THEN Labelled(FormatFixed(size, 1024 * 1024, 3), "MB")
                ELSE IF size >= 1024 THEN Labelled(FormatFixed(size, 1024, 3), "KB")
                ELSE Labelled(Itoa(size), "B")
\* part_005:18-109, resolvePlaceholder: latency.Milliseconds() truncates.
resolvePlaceholder_part_005(parts, c, latency) ==
  LET key == KeyOf(parts)
      unit == UnitOf(parts)
      ms == latency \div 1000000
  IN  CASE key = "time" -> Resolved(TimeText(UnitSpecOf(parts)))
        [] key = "status_code" -> Resolved(Itoa(c.status))
        [] key = "method" -> Resolved(Text(c.method))
        [] key = "path" -> Resolved(Text(c.path))
        [] key = "client_ip" -> Resolved(Text(c.clientIP))
        [] key = "latency" ->
             Resolved(CASE unit = "ns" -> Itoa(latency)
                        [] unit = "ms" -> Itoa(ms)
                        [] unit = "s" -> FormatFixed(latency, 1000000000, 2)
                        [] OTHER ->
                             IF ms >= 1000 THEN Labelled(FormatFixed(ms, 1000, 3), "s")
                             ELSE Labelled(FormatFixed(ms, 1, 3), "ms"))
        [] key = "user_agent" -> Resolved(Text(c.userAgent))
        [] key = "protocol" -> Resolved(Text(c.proto))
        [] key = "request_size" -> Resolved(SizeText_part_005(c.contentLength, unit))
        [] key = "response_size" -> Resolved(SizeText_part_005(c.size, unit))
        [] OTHER -> Unsupported

\* One token of a line: what was written for a token of the format.
Piece(tok, v) == [open |-> tok.open, val |-> v, close |-> tok.close]
\* logger_middleware.go:149-161, FormatLogMessage: every {...} of the format
\* is replaced by its value, or by ERR if it cannot be resolved.
FormatLogMessage(format, c, latency) ==
  [i \in 1..Len(format) |->
     IF format[i].kind = "literal" THEN Piece(format[i], Text(format[i].parts[1]))
     ELSE LET out == resolvePlaceholder(format[i].parts, c, latency)
          IN  Piece(format[i], IF out.ok THEN out.val ELSE Text("ERR"))]
\* part_005:129-142, FormatLogMessage
FormatLogMessage_part_005(format, c, latency) ==
  [i \in 1..Len(format) |->
     IF format[i].kind = "literal" THEN Piece(format[i], Text(format[i].parts[1]))
     ELSE LET out == resolvePlaceholder_part_005(format[i].parts, c, latency)
          IN  Piece(format[i], IF out.ok THEN out.val ELSE Text("ERR"))]

\* logs_generator.go:29-41: the random values, with rand.Intn(500)+10 as msVal.
randomValues(msVal) ==
  [time |-> TimeText(<<>>), status_code |-> Itoa(200), method |-> Text("GET"),
   path |-> Text("/dummy"), client_ip |-> Text("0.0.0.0"),
   latency |-> Labelled(Itoa(msVal), "ms"),
   user_agent |-> Text("curl/7.68.0"), protocol |-> Text("HTTP/1.1"),
   request_size |-> Itoa(100), response_size |-> Itoa(9999),
   cookies |-> Text("cookie1=value0; cookie2=value0")]
\* logs_generator.go:26-91, GenerateRandomLogMessage
GenerateRandomLogMessage(format, msVal) ==
  LET vals == randomValues(msVal)
      Value(parts) ==
        LET key == KeyOf(parts)
            unit == UnitOf(parts)
        IN  IF key \notin DOMAIN vals THEN Text("ERR")
            ELSE CASE key = "latency" ->
                        (CASE unit = "ns" -> Itoa(msVal * 1000000)
                           [] unit = "ms" -> Itoa(msVal)
                           [] unit = "s" -> FormatFixed(msVal, 1000, 2)
                           [] OTHER -> Labelled(Itoa(msVal), "ms"))
                   [] key \in {"request_size", "response_size"} ->
                        (CASE unit = "kb" -> FormatFixed(vals[key].whole, 1024, 3)
                           [] unit = "mb" -> FormatFixed(vals[key].whole, 1024 * 1024, 3)
                           [] unit = "gb" ->
                                FormatFixed(vals[key].whole, 1024 * 1024 * 1024, 3)
                           [] OTHER -> Labelled(Itoa(vals[key].whole), "B"))
                   [] OTHER -> vals[key]
  IN  [i \in 1..Len(format) |->
         IF format[i].kind = "literal" THEN Piece(format[i], Text(format[i].parts[1]))
         ELSE Piece(format[i], Value(format[i].parts))]

\* part_009:47-64: the placeholders of the RANDOM format and the predefined
\* formats of generateRandomLog, written {{key}}.
LegacyPlaceholders ==
  <<Placeholder(<<"time">>, "[", "]"), Placeholder(<<"status_code">>, "", ""),
    Placeholder(<<"method">>, "", ""), Placeholder(<<"path">>, "", ""),
    Placeholder(<<"client_ip">>, "", ""), Placeholder(<<"latency">>, "latency: ", ""),
    Placeholder(<<"cookies">>, "cookies: ", "")>>
LegacyApache ==
  <<Placeholder(<<"client_ip">>, "", ""), Literal("-"), Literal("-"),
    Placeholder(<<"time">>, "[", "]"), Placeholder(<<"method">>, "\"", ""),
    Placeholder(<<"path">>, "", " HTTP/1.1\""), Placeholder(<<"status_code">>, "", ""),
    Literal("-")>>
LegacyNginx ==
  <<Placeholder(<<"client_ip">>, "", ""), Literal("-"),
    Placeholder(<<"time">>, "[", "]"), Placeholder(<<"method">>, "\"", ""),
    Placeholder(<<"path">>, "", "\""), Placeholder(<<"status_code">>, "", ""),
    Placeholder(<<"latency">>, "", "")>>
\* part_009:67-75: the keys of the JSON object, as a format.
LegacyJson ==
  <<Placeholder(<<"time">>, "", ""), Placeholder(<<"status_code">>, "", ""),
    Placeholder(<<"method">>, "", ""), Placeholder(<<"path">>, "", ""),
    Placeholder(<<"client_ip">>, "", ""), Placeholder(<<"latency">>, "", ""),
    Placeholder(<<"cookies">>, "", "")>>
\* part_009:41-79: the format generateRandomLog renders one line from; it
\* reads LOG_FORMAT itself (default json) and shuffles anew for RANDOM.
generateRandomLog_Formats(setting) ==
  CASE setting = <<>> \/ Selects(setting, "json") -> {LegacyJson}
    [] Selects(setting, "random") ->
         {Shuffled(LegacyPlaceholders, perm) : perm \in Shuffles(Len(LegacyPlaceholders))}
    [] Selects(setting, "apache") -> {LegacyApache}
    [] Selects(setting, "nginx") -> {LegacyNginx}
    [] OTHER -> {setting}
\* part_009:28-39, 81-94: the {{key}} of the seven keys are replaced; a format
\* given by the user in the {key} notation stays as it is.
generateRandomLog(setting, format, ms) ==
  LET vals == [time |-> Text("RFC3339"), status_code |-> Itoa(200), method |-> Text("GET"),
               path |-> Text("/test"), client_ip |-> Text("10.0.0.5"),
               latency |-> Labelled(Itoa(ms), "ms"),
               cookies |-> Text("[cookie1=value1; cookie2=value2]")]
  IN  [i \in 1..Len(format) |->
         IF format[i].kind = "literal" \/ format = setting
           THEN Piece(format[i], Text(format[i].parts[1]))
         ELSE Piece(format[i], vals[format[i].parts[1]])]

\* The LOG_FORMAT settings: unset, the predefined names, RANDOM, and formats
\* given by the user.
UnknownKeyFormat ==
  <<Placeholder(<<"TIME">>, "[", "]"), Literal("-"),
    Placeholder(<<"BOGUS", "time">>, "", ""), Placeholder(<<"Status_Code">>, "", ""),
    Placeholder(<<"cookies">>, "", ""), Placeholder(<<"Latency", "MS">>, "\"", "\"")>>
LatencyFormat ==
  <<Placeholder(<<"latency", "s">>, "", ""), Placeholder(<<"latency", "ms">>, "", ""),
    Placeholder(<<"latency">>, "", ""), Placeholder(<<"latency", "micros">>, "", ""),
    Placeholder(<<"latency", "ns">>, "", "")>>
LogFormats ==
  {<<>>, <<Literal("Apache")>>, <<Literal("nginx")>>, <<Literal("full")>>,
   <<Literal("RANDOM")>>, UnknownKeyFormat, LatencyFormat}

\* logger_middleware.go:163-180, LoggerMiddleware: one request is logged.
LoggerMiddleware ==
  /\ globalLogFormat # <<>>
  /\ \E latency \in Latencies :
       lineOut' = [by |-> "LoggerMiddleware", format |-> globalLogFormat,
                   latency |-> latency,
                   text |-> FormatLogMessage(globalLogFormat, Context, latency)]
  /\ UNCHANGED <<now, simVars, pl, hpc, resp, job, res, connections, wk, alive, ctxHost,
                 faults, configured, code, randVars, logFormat, globalLogFormat,
                 memoryLeakStore, cfgVars>>

\* part_005:144-155, LoggerMiddleware of the build with part_005's resolver.
LoggerMiddleware_part_005 ==
  /\ globalLogFormat # <<>>
  /\ \E latency \in Latencies :
       lineOut' = [by |-> "LoggerMiddleware_part_005", format |-> globalLogFormat,
                   latency |-> latency,
                   text |-> FormatLogMessage_part_005(globalLogFormat, Context, latency)]
  /\ UNCHANGED <<now, simVars, pl, hpc, resp, job, res, connections, wk, alive, ctxHost,
                 faults, configured, code, randVars, logFormat, globalLogFormat,
                 memoryLeakStore, cfgVars>>

\* logs_generator.go:112-114: LogsGeneratorHandler writes one synthetic line.
LogsGeneratorHandler_Line ==
  /\ globalLogFormat # <<>>
  /\ \E msVal \in {10, 509} :
       lineOut' = [by |-> "GenerateRandomLogMessage", format |-> globalLogFormat,
                   latency |-> msVal * 1000000,
                   text |-> GenerateRandomLogMessage(globalLogFormat, msVal)]
  /\ UNCHANGED <<now, simVars, pl, hpc, resp, job, res, connections, wk, alive, ctxHost,
                 faults, configured, code, randVars, logFormat, globalLogFormat,
                 memoryLeakStore, cfgVars>>

\* part_009:119-121: LogsGeneratorHandler writes one line of generateRandomLog.
LogsGeneratorHandler_Line_part_009 ==
  /\ globalLogFormat # <<>>
  /\ \E format \in generateRandomLog_Formats(logFormat) : \E ms \in {1, 499} :
       lineOut' = [by |-> "generateRandomLog", format |-> format,
                   latency |-> ms * 1000000,
                   text |-> generateRandomLog(logFormat, format, ms)]
  /\ UNCHANGED <<now, simVars, pl, hpc, resp, job, res, connections, wk, alive, ctxHost,
                 faults, configured, code, randVars, logFormat, globalLogFormat,
                 memoryLeakStore, cfgVars>>

\* SpecLog: the process starts with one LOG_FORMAT setting and writes log lines.
InitLog ==
  /\ now = 0
  /\ configured = TRUE
  /\ plan = [r \in Req |-> {}]
  /\ FlagsClear
  /\ Decoded(StressPayload("cpu", FALSE, 0, 0, 0, 0, 0))
  /\ value = <<>> /\ field = "none" /\ defaults = <<0, 0>> /\ resolved = NoOutcome
  /\ logFormat \in LogFormats
  /\ globalLogFormat = <<>>
  /\ lineOut = NoLine
  /\ memoryLeakStore = <<>>
  /\ env = NoEnv /\ cfg = NoCfg

NextLog ==
  \/ initConfig
  \/ LoggerMiddleware
  \/ LoggerMiddleware_part_005
  \/ LogsGeneratorHandler_Line
  \/ LogsGeneratorHandler_Line_part_009

SpecLog == InitLog /\ [][NextLog]_vars

\* SpecInject: one error-injection request, of a rate below, at or above the
\* ends of [0, 1], and two plain requests that meet its interceptor.
InjectRates == {-50, 0, 50, 100}
InjectPlans ==
  { [r \in Req |-> CASE r = 1 -> {Payload("error_injection", v, 1, a)}
                      [] r \in {2, 3} -> {Payload("simple", 0, 0, FALSE)}
                      [] OTHER -> {}] : v \in InjectRates, a \in BOOLEAN }

InitInject ==
  /\ now = 0
  /\ configured = TRUE
  /\ FnIdle
  /\ plan \in InjectPlans
  /\ FlagsClear
  /\ Decoded(StressPayload("cpu", FALSE, 0, 0, 0, 0, 0))

NextInject ==
  \/ Tick
  \/ \E r \in Req :
       \/ Arrive(r)
       \/ DowntimeMiddleware(r)
       \/ NetworkStressMiddleware(r)
       \/ ErrorInjectionMiddleware_Check(r)
       \/ ErrorInjectionMiddleware_Roll(r)
       \/ SimpleHandler(r)
       \/ ErrorInjectionHandler_Set(r)
       \/ ErrorInjection_Reset(r)
       \/ ControlHandler_Respond(r)

SpecInject == InitInject /\ [][NextInject]_vars

\* SpecSim: the traffic through the interceptors; no stress request is made.
InitSim ==
  /\ now = 0
  /\ configured = TRUE
  /\ FnIdle
  /\ plan \in Plans
  /\ FlagsClear
  /\ Decoded(StressPayload("cpu", FALSE, 0, 0, 0, 0, 0))

NextSim ==
  \/ Tick
  \/ \E r \in Req :
       \/ Arrive(r)
       \/ DowntimeMiddleware(r)
       \/ NetworkStressMiddleware(r)
       \/ NetworkStressMiddleware_Wake(r)
       \/ ErrorInjectionMiddleware_Check(r)
       \/ ErrorInjectionMiddleware_Roll(r)
       \/ SimpleHandler(r)
       \/ SystemMetricsHandler(r)
       \/ NetworkHandler_Dispatch(r)
       \/ SetNetwork_Set(r)
       \/ SetNetwork_Reset(r)
       \/ ErrorInjectionHandler_Set(r)
       \/ ErrorInjection_Reset(r)
       \/ DowntimeHandler_Set(r)
       \/ Downtime_Reset(r)
       \/ ControlHandler_Respond(r)

SpecSim == InitSim /\ [][NextSim]_vars

\* SpecDecode: control requests whose bodies the handlers decode.
InitDecode ==
  /\ now = 0
  /\ configured = TRUE
  /\ FnIdle
  /\ plan \in DecodePlans
  /\ FlagsClear
  /\ Decoded(StressPayload("cpu", FALSE, 0, 0, 0, 0, 0))

NextDecode ==
  \/ Tick
  \/ \E r \in Req :
       \/ Arrive(r)
       \/ DowntimeMiddleware(r)
       \/ NetworkStressMiddleware(r)
       \/ NetworkStressMiddleware_Wake(r)
       \/ ErrorInjectionMiddleware_Check(r)
       \/ ErrorInjectionMiddleware_Roll(r)
       \/ Handler_Bind(r)
       \/ NetworkHandler_Dispatch(r)
       \/ SetNetwork_Set(r)
       \/ SetNetwork_Reset(r)
       \/ ErrorInjectionHandler_Set(r)
       \/ ErrorInjection_Reset(r)
       \/ DowntimeHandler_Set(r)
       \/ Downtime_Reset(r)
       \/ ControlHandler_Respond(r)

SpecDecode == InitDecode /\ [][NextDecode]_vars

\* SpecJob: one stress request of any payload; no simulation is active.
InitJob ==
  /\ now = 0
  /\ configured \in BOOLEAN
  /\ FnIdle
  /\ plan = [r \in Req |-> {}]
  /\ FlagsClear
  /\ \E p \in StressPayloads : Decoded(p)

NextJob ==
  \/ Tick
  \/ Handler_Config
  \/ HeavyHandler_Open
  \/ HeavyHandler_Ping
  \/ Handler_Dispatch
  \/ Handler_Respond
  \/ Handler_Recover
  \/ ContextReuse
  \/ StressFuncA_Start
  \/ StressFuncA_Loop
  \/ StressFuncA_Wake
  \/ StressFuncA_Close
  \/ RunCPUStress_Start
  \/ RunCPUStress_Loop
  \/ RunMemoryStress_Alloc
  \/ RunMemoryStress_Done
  \/ FloodFunc_Start
  \/ FloodFunc_Loop
  \/ FloodFunc_Wake
  \/ CrashFunc_Sleep
  \/ CrashFunc_Exit
  \/ StressFuncB_Spawn
  \/ \E w \in Workers :
       \/ Worker_Open(w)
       \/ Worker_Ping(w)
       \/ Worker_Loop(w)
       \/ Worker_Wake(w)
       \/ Worker_Close(w)
  \/ StressFuncB_Wait
  \/ StressFuncC_Start
  \/ Ticker_Fire
  \/ StressFuncC_Tick
  \/ StressFuncC_Default
  \/ StressFuncC_Ramp
  \/ StressFuncC_Ping
  \/ StressFuncC_Hold
  \/ StressFuncC_CloseAll

SpecJob == InitJob /\ [][NextJob]_vars

\* The handler's prologue and the first step of the job and of each worker
\* take less than a clock tick.
Prompt ==
  \/ hpc \in {"config", "open", "ping", "dispatch"}
  \/ job.pc = "start"
  \/ \E w \in Workers : wk[w].pc \in {"open", "ping"}

\* The clock advances once the prompt steps have been taken.
Tick_Started ==
  /\ ~Prompt
  /\ Tick

\* SpecJobLive: one stress request of any payload, run by a scheduler that
\* lets every goroutine that can take a step take it eventually, and a clock
\* that does not stop before its last tick.
NextJobLive ==
  \/ Tick_Started
  \/ Handler_Config
  \/ HeavyHandler_Open
  \/ HeavyHandler_Ping
  \/ Handler_Dispatch
  \/ Handler_Respond
  \/ Handler_Recover
  \/ ContextReuse
  \/ StressFuncA_Start
  \/ StressFuncA_Loop
  \/ StressFuncA_Wake
  \/ StressFuncA_Close
  \/ RunCPUStress_Start
  \/ RunCPUStress_Loop
  \/ RunMemoryStress_Alloc
  \/ RunMemoryStress_Done
  \/ FloodFunc_Start
  \/ FloodFunc_Loop
  \/ FloodFunc_Wake
  \/ CrashFunc_Sleep
  \/ CrashFunc_Exit
  \/ StressFuncB_Spawn
  \/ \E w \in Workers :
       \/ Worker_Open(w)
       \/ Worker_Ping(w)
       \/ Worker_Loop(w)
       \/ Worker_Wake(w)
       \/ Worker_Close(w)
  \/ StressFuncB_Wait
  \/ StressFuncC_Start
  \/ Ticker_Fire
  \/ StressFuncC_Tick
  \/ StressFuncC_Default
  \/ StressFuncC_Ramp
  \/ StressFuncC_Ping
  \/ StressFuncC_Hold
  \/ StressFuncC_CloseAll

Fairness ==
  /\ WF_vars(Tick_Started)
  /\ WF_vars(Handler_Config) /\ WF_vars(HeavyHandler_Open) /\ WF_vars(HeavyHandler_Ping)
  /\ WF_vars(Handler_Dispatch) /\ WF_vars(Handler_Respond) /\ WF_vars(Handler_Recover)
  /\ WF_vars(StressFuncA_Start) /\ WF_vars(StressFuncA_Loop) /\ WF_vars(StressFuncA_Wake)
  /\ WF_vars(StressFuncA_Close)
  /\ WF_vars(RunCPUStress_Start) /\ WF_vars(RunCPUStress_Loop)
  /\ WF_vars(RunMemoryStress_Alloc) /\ WF_vars(RunMemoryStress_Done)
  /\ WF_vars(FloodFunc_Start) /\ WF_vars(FloodFunc_Loop) /\ WF_vars(FloodFunc_Wake)
  /\ WF_vars(CrashFunc_Sleep) /\ WF_vars(CrashFunc_Exit)
  /\ WF_vars(StressFuncB_Spawn) /\ WF_vars(StressFuncB_Wait)
  /\ \A w \in Workers :
       /\ WF_vars(Worker_Open(w)) /\ WF_vars(Worker_Ping(w)) /\ WF_vars(Worker_Loop(w))
       /\ WF_vars(Worker_Wake(w)) /\ WF_vars(Worker_Close(w))
  /\ WF_vars(StressFuncC_Start) /\ WF_vars(Ticker_Fire) /\ WF_vars(StressFuncC_Tick)
  /\ WF_vars(StressFuncC_Default) /\ WF_vars(StressFuncC_Ramp) /\ WF_vars(StressFuncC_Ping)
  /\ WF_vars(StressFuncC_Hold) /\ WF_vars(StressFuncC_CloseAll)

SpecJobLive == InitJob /\ [][NextJobLive]_vars /\ Fairness

\* The ramp-up requests with a ticker: interval_second is positive.
PollPayloads ==
  {StressPayload(ep, a, m, iv, cc, inc, 0) :
     ep \in {"sql_connection", "redis_connection"}, a \in BOOLEAN, m \in MaintainVals,
     iv \in 1..MaxInterval, cc \in ConnVals, inc \in IncreaseVals}

\* mysql_stress.go:248-252: without a waiting tick the loop polls the deadline
\* every 100 ms, which is less than a clock tick: a deadline the clock has
\* passed is found passed before the clock moves again.
PollDue == job.pc = "select" /\ ~job.tickPending /\ After(now, job.endTime)

\* mysql_stress.go:255-266: past the deadline nothing waits between the loop
\* and the closing of the list.
ClosingDue == job.pc = "hold" \/ (job.pc = "hold_sleep" /\ now >= job.wake)

\* The clock advances when no step shorter than a tick is due.
Tick_Polled ==
  /\ ~PollDue /\ ~ClosingDue
  /\ Tick

\* SpecPoll: one ramp-up request with a ticker, on a clock no finer than the
\* polling of the deadline; no simulation is active.
InitPoll ==
  /\ now = 0
  /\ configured = TRUE
  /\ FnIdle
  /\ plan = [r \in Req |-> {}]
  /\ FlagsClear
  /\ \E p \in PollPayloads : Decoded(p)

NextPoll ==
  \/ Tick_Polled
  \/ Handler_Config
  \/ Handler_Dispatch
  \/ Handler_Respond
  \/ StressFuncC_Start
  \/ Ticker_Fire
  \/ StressFuncC_Tick
  \/ StressFuncC_Default
  \/ StressFuncC_Ramp
  \/ StressFuncC_Ping
  \/ StressFuncC_Hold
  \/ StressFuncC_CloseAll

SpecPoll == InitPoll /\ [][NextPoll]_vars

\* SpecLoop: one stress request whose job is a loop of work units (Shape A and
\* the flood); no simulation is active.
InitLoop ==
  /\ now = 0
  /\ configured = TRUE
  /\ FnIdle
  /\ plan = [r \in Req |-> {}]
  /\ FlagsClear
  /\ \E p \in StressPayloads :
       /\ p.endpoint \in {"sql_heavy", "redis_heavy", "flood"}
       /\ Decoded(p)

NextLoop ==
  \/ Tick
  \/ Handler_Config
  \/ HeavyHandler_Open
  \/ HeavyHandler_Ping
  \/ Handler_Dispatch
  \/ Handler_Respond
  \/ ContextReuse
  \/ StressFuncA_Start
  \/ StressFuncA_Loop
  \/ StressFuncA_Wake
  \/ StressFuncA_Close
  \/ FloodFunc_Start
  \/ FloodFunc_Loop
  \/ FloodFunc_Wake

SpecLoop == InitLoop /\ [][NextLoop]_vars

\* The fan-out requests: any number of connections, an interval of a second,
\* and a duration of a second or none.
FanPayloads ==
  {StressPayload(ep, a, m, 1, cc, 0, 0) :
     ep \in {"sql_multi", "redis_multi"}, a \in BOOLEAN, m \in {0, 1}, cc \in ConnVals}

\* SpecFan: one fan-out request (Shape B); no simulation is active.
InitFan ==
  /\ now = 0
  /\ configured = TRUE
  /\ FnIdle
  /\ plan = [r \in Req |-> {}]
  /\ FlagsClear
  /\ \E p \in FanPayloads : Decoded(p)

NextFan ==
  \/ Tick
  \/ Handler_Config
  \/ Handler_Dispatch
  \/ Handler_Respond
  \/ StressFuncB_Spawn
  \/ \E w \in Workers :
       \/ Worker_Open(w)
       \/ Worker_Ping(w)
       \/ Worker_Loop(w)
       \/ Worker_Wake(w)
       \/ Worker_Close(w)
  \/ StressFuncB_Wait

SpecFan == InitFan /\ [][NextFan]_vars

\* SpecRamp: one ramp-up request of the second scenario; no simulation is active.
InitRamp ==
  /\ now = 0
  /\ configured = TRUE
  /\ FnIdle
  /\ plan = [r \in Req |-> {}]
  /\ FlagsClear
  /\ \E p \in RampPayloads : Decoded(p)

NextRamp ==
  \/ Tick
  \/ Handler_Config
  \/ Handler_Dispatch
  \/ Handler_Respond
  \/ StressFuncC_Start
  \/ Ticker_Fire
  \/ StressFuncC_Tick
  \/ StressFuncC_Default
  \/ StressFuncC_Ramp
  \/ StressFuncC_Ping
  \/ StressFuncC_Hold
  \/ StressFuncC_CloseAll

SpecRamp == InitRamp /\ [][NextRamp]_vars

\* SpecLeak: one memory-leak request; no simulation is active.
InitLeak ==
  /\ now = 0
  /\ configured = TRUE
  /\ FnIdle
  /\ plan = [r \in Req |-> {}]
  /\ FlagsClear
  /\ \E p \in LeakPayloads : Decoded(p)

NextLeak ==
  \/ Tick
  \/ Handler_Dispatch
  \/ Handler_Respond
  \/ Handler_Recover
  \/ RunMemoryLeak_Start
  \/ Ticker_Fire
  \/ RunMemoryLeak_Tick
  \/ RunMemoryLeak_Done

SpecLeak == InitLeak /\ [][NextLeak]_vars

(* ===================== properties of SpecSim ========================== *)
\* The stages a request passes, in the order the specification gives them.
ClaimedOrder == <<"downtime", "latency", "packet_loss", "error_injection", "handler">>
Passed(r, stage) == \E i \in 1..Len(rq[r].trail) : rq[r].trail[i] = stage
Rejected(r) == rq[r].err \in {"SERVICE_DOWN", "SERVICE_UNAVAILABLE", "RANDOM_ERROR"}

\* C3: a request for which the downtime interceptor read the flag as active,
\* whatever its route, is answered 503 SERVICE_DOWN and nothing after the
\* downtime interceptor runs for it (no delay, no later interceptor, no handler,
\* no job); a request for which it read the flag as inactive is not answered
\* by the downtime interceptor and goes on to the next interceptor unchanged.
C3_DowntimeShortCircuit ==
  \A r \in Req :
    Passed(r, "downtime") =>
      /\ rq[r].active =>
           /\ rq[r].status = 503 /\ rq[r].err = "SERVICE_DOWN"
           /\ rq[r].trail = <<"downtime">>
           /\ rq[r].pc = "done" /\ rq[r].jpc = "none" /\ ~rq[r].delayed
      /\ ~rq[r].active =>
           /\ rq[r].err # "SERVICE_DOWN"
           /\ rq[r].pc = "network" \/ Len(rq[r].trail) >= 2
           /\ rq[r].pc = "network" => rq[r].status = 0 /\ rq[r].err = "none"

\* A control request was short-circuited by downtime while another request,
\* which read the flag as inactive, ran its handler.
C3_Witness ==
  \E r, q \in Req :
    /\ rq[r].active /\ rq[r].status = 503 /\ rq[r].route \in ControlRoutes
    /\ ~rq[q].active /\ Passed(q, "handler")

\* C4: the stages a request has passed are always a prefix of downtime,
\* latency, packet loss, error injection, handler; a request rejected by an
\* interceptor stops there: a request answered by downtime was never delayed
\* and passed no other stage, a request dropped by packet loss never reached
\* error injection, and no rejected request reached its handler or started a job.
C4_FixedOrder ==
  \A r \in Req :
    LET t == rq[r].trail IN
    /\ Len(t) <= Len(ClaimedOrder)
    /\ \A i \in 1..Len(t) : t[i] = ClaimedOrder[i]
    /\ rq[r].err = "SERVICE_DOWN" => Len(t) = 1 /\ ~rq[r].delayed
    /\ rq[r].err = "SERVICE_UNAVAILABLE" => Len(t) = 3
    /\ rq[r].err = "RANDOM_ERROR" => Len(t) = 4
    /\ Rejected(r) => rq[r].pc = "done" /\ rq[r].jpc = "none"

\* Latency and error injection are active at once: one request is first
\* delayed and then rejected by error injection.
C4_Witness ==
  \E r \in Req : rq[r].delayed /\ rq[r].err = "RANDOM_ERROR" /\ rq[r].route = "simple"

\* C5: once POST /stress/network/packet_loss with loss_percentage 100 has been
\* answered 200, a plain request that arrives after that answer and takes its
\* packet-loss check before the window set by that POST has expired is answered
\* 503 SERVICE_UNAVAILABLE, and one that takes the check at or after the expiry
\* is not dropped and succeeds.
C5_PacketLossWindow ==
  \A c, s \in Req :
    ( /\ rq[c].route = "packet_loss" /\ rq[c].value = 100
      /\ c \in rq[s].acked
      /\ rq[s].route = "simple" /\ rq[s].pc = "done" /\ Passed(s, "packet_loss") )
    => /\ (rq[c].jpc = "set" \/ (rq[c].jpc # "none" /\ rq[s].tnow < rq[c].jwake))
            => rq[s].status = 503 /\ rq[s].err = "SERVICE_UNAVAILABLE"
       /\ (rq[c].jpc \in {"sleep", "done"} /\ rq[s].tnow >= rq[c].jwake)
            => rq[s].status = 200

\* C9: no simulation flag is ever read or written outside a critical section
\* of the mutex that guards it.
C9_FlagsGuarded == unguarded = {}

\* C10 as stated: no flag is ended by an explicit reset step; once raised or
\* positive, a flag keeps that value until a control handler writes it again.
C10_NoExplicitReset ==
  [][ /\ downtimeActive => downtimeActive'
      /\ activeLatencyMs > 0 => activeLatencyMs' > 0
      /\ activePacketLoss > 0 => activePacketLoss' > 0
      /\ activeErrorRate > 0 => activeErrorRate' > 0 ]_vars

\* The step of request r that arms the simulation of `route`: the job's first
\* step for latency and packet loss, the handler's for the other two.
SetStep(r, route) ==
  /\ rq[r].route = route
  /\ IF route \in {"latency", "packet_loss"}
       THEN rq[r].jpc = "set" /\ rq'[r].jpc = "sleep"
       ELSE rq[r].pc = "handler" /\ rq'[r].pc = "respond"

\* The reset step of request r's job, taken once its duration has elapsed.
ResetStep(r, route) ==
  /\ rq[r].route = route /\ rq[r].jpc = "sleep" /\ rq'[r].jpc = "done"
  /\ now >= rq[r].jwake

\* C10 amended: latency and packet loss carry an expiry, and a request is
\* delayed (respectively exposed to the packet-loss roll) exactly when the
\* interceptor's clock reading is before the expiry it copied and the value it
\* copied is positive; a certain drop (100%) then follows.  Besides, every flag
\* is written by two steps only: the set step of its control request and the
\* explicit reset step that the control job takes once its duration has
\* elapsed.  Downtime has no expiry: it is raised by the set step and lowered
\* by the reset step alone.
C10_ExpiryAndReset ==
  /\ [](\A r \in Req :
          /\ Passed(r, "latency") =>
               (rq[r].delayed <=> (rq[r].tnow < rq[r].latencyExpires /\ rq[r].latency > 0))
          /\ rq[r].err = "SERVICE_UNAVAILABLE" =>
               (rq[r].tnow < rq[r].lossExpires /\ rq[r].loss > 0)
          /\ (Passed(r, "packet_loss") /\ rq[r].tnow < rq[r].lossExpires /\ rq[r].loss >= 100)
               => rq[r].err = "SERVICE_UNAVAILABLE")
  /\ [][ /\ downtimeActive' # downtimeActive =>
              \E r \in Req : IF downtimeActive' THEN SetStep(r, "downtime")
                             ELSE ResetStep(r, "downtime")
         /\ activeLatencyMs' # activeLatencyMs =>
              \E r \in Req : SetStep(r, "latency")
                             \/ (ResetStep(r, "latency") /\ activeLatencyMs' = 0)
         /\ activePacketLoss' # activePacketLoss =>
              \E r \in Req : SetStep(r, "packet_loss")
                             \/ (ResetStep(r, "packet_loss") /\ activePacketLoss' = 0)
         /\ activeErrorRate' # activeErrorRate =>
              \E r \in Req : SetStep(r, "error_injection")
                             \/ (ResetStep(r, "error_injection") /\ activeErrorRate' = 0)
         /\ <<latencyExpiry, packetLossExpiry, errorInjectionExpiry>>'
              # <<latencyExpiry, packetLossExpiry, errorInjectionExpiry>> =>
              \E r \in Req : \E route \in ControlRoutes : SetStep(r, route) ]_vars

\* A downtime request was delayed by an active latency, raised the flag, and
\* its job has lowered the flag again.
C10_Witness ==
  \E r \in Req :
    /\ rq[r].route = "downtime" /\ rq[r].delayed
    /\ rq[r].jpc = "done" /\ ~downtimeActive

(* ===================== properties of SpecJob ========================== *)
OpenCount == Cardinality({k \in DOMAIN res : res[k].open})
\* The handler has returned and the job, if one was started, has ended.
RequestOver == hpc = "returned" /\ job.pc \in {"none", "done", "panic"}

\* C1: no resource is ever closed twice, and once the request is over (the
\* handler has returned on any path, and the job it started has ended) every
\* resource that was opened has been closed exactly once and none is open.
C1_ClosedExactlyOnce ==
  /\ \A k \in DOMAIN res : res[k].closes <= 1
  /\ RequestOver => \A k \in DOMAIN res : res[k].closes = 1 /\ ~res[k].open

\* C2: in a ramp-up job the number of resources open at once never exceeds
\* connection_counts, and no more than increase_per_interval resources are
\* opened on one ticker tick.
C2_RampUpBound ==
  Shape(pl.endpoint) = "C" =>
    /\ OpenCount <= pl.connectionCounts
    /\ job.openedThisTick <= pl.increasePerInterval

\* C6: with async=false the 200 response is written only after the job has
\* finished: its function has returned, every worker has exited, the duration
\* of the job and of every worker that ran has elapsed, and no resource is
\* open; with async=true the response can be written whatever the job's state.
C6_SyncWaitsAsyncDetaches ==
  /\ (~pl.async /\ resp = 200) =>
       /\ job.pc = "done"
       /\ AllWorkersExited
       /\ now >= job.endTime
       /\ \A w \in Workers : now >= wk[w].endTime
       /\ OpenCount = 0
  /\ (pl.async /\ alive /\ hpc = "respond") => ENABLED Handler_Respond

\* C7: what the job reads does not depend on the request being in progress:
\* the host the flood job builds its URL from is the host of the request that
\* started it, with async=true as with async=false.
C7_JobIndependentOfRequest ==
  job.url # "" => job.url = pl.host

\* C8: no request to an endpoint other than /stress/crash terminates the process.
C8_OnlyCrashTerminates ==
  alive \/ pl.endpoint = "crash"

\* C11: a fan-out job with connection_counts = N launches exactly N workers;
\* its function returns, and the synchronous response is written, only after
\* every one of them has exited; a worker whose open or ping fails exits alone
\* (its step changes no sibling and not the job), and a worker that completed
\* its setup never exits before its deadline.
C11_FanOutJoin ==
  /\ [](Shape(pl.endpoint) = "B" =>
          /\ job.pc \in {"wait", "done"} =>
               \A w \in Workers : (wk[w].pc # "none") <=> (w <= pl.connectionCounts)
          /\ job.pc = "done" =>
               \A w \in Workers : w <= pl.connectionCounts => wk[w].pc = "exit"
          /\ (~pl.async /\ resp = 200) => job.pc = "done"
          /\ \A w \in Workers :
               /\ wk[w].ok => wk[w].pc \in {"loop", "sleep", "close", "exit"}
               /\ (wk[w].ok /\ wk[w].pc = "exit") => now >= wk[w].endTime)
  /\ [][\A w \in Workers :
          (wk[w].pc \in {"open", "ping"} /\ wk'[w].pc = "exit") =>
            /\ job' = job
            /\ \A v \in Workers \ {w} : wk'[v] = wk[v]]_vars

\* Of two workers one failed its setup and exited at once, the other ran to
\* its deadline, and the job has returned.
C11_Witness ==
  /\ Shape(pl.endpoint) = "B" /\ pl.connectionCounts = 2 /\ job.pc = "done"
  /\ \E w, v \in Workers :
       /\ ~wk[w].ok /\ wk[w].pc = "exit"
       /\ wk[v].ok /\ wk[v].pc = "exit" /\ wk[v].endTime > 0

\* C12: in a fan-out job every worker that runs its loop has the same
\* deadline, the start of the job plus maintain_second, however long its own
\* connection setup took.
C12_SameDeadline ==
  Shape(pl.endpoint) = "B" =>
    \A w \in Workers : wk[w].ok => wk[w].endTime = job.start + pl.maintainSec * Second

\* C13: a ramp-up job opens no resource at a time later than its deadline (job
\* start + maintain_second), and opens none once the count of opened
\* resources has reached connection_counts.
C13_RampStops ==
  [][(Shape(pl.endpoint) = "C" /\ Len(res') > Len(res)) =>
       /\ now <= job.endTime
       /\ job.currentCount < pl.connectionCounts]_vars

\* The resources of the held list.
Held == {connections[x] : x \in DOMAIN connections}

\* C14: in a ramp-up job every resource of the held list stays open while the
\* job ramps and holds; none is closed before job start + maintain_second; and
\* the step that closes one closes them all and is the step after which the
\* job is complete.
C14_HoldThenClose ==
  /\ [](Shape(pl.endpoint) = "C" =>
          /\ job.pc \in {"select", "ramp", "ramp_ping", "hold", "hold_sleep"} =>
               \A k \in Held : res[k].open
          /\ job.pc = "done" => \A k \in Held : ~res[k].open)
  /\ [][\A k \in Held :
          (res[k].open /\ ~res'[k].open) =>
            /\ now >= job.start + pl.maintainSec * Second
            /\ job.pc # "done" /\ job'.pc = "done"
            /\ \A j \in Held : ~res'[j].open]_vars

\* A job that reached its target of 2 with its first tick has completed.
C14_Witness ==
  /\ Shape(pl.endpoint) = "C" /\ pl.connectionCounts = 2 /\ job.pc = "done"
  /\ job.served = 1 /\ Len(connections) = 2
  /\ \A k \in Held : res[k].closes = 1

\* C15: in a ramp-up job a failed open (the open or the ping failing) leaves
\* the count and the held list as they were and the job goes on with the next
\* turn of its loop; the count is the length of the held list, and no resource
\* whose ping failed is in it.
C15_FailedOpenSkipped ==
  /\ [](Shape(pl.endpoint) = "C" =>
          /\ job.currentCount = Len(connections)
          /\ job.pc = "ramp_ping" => job.cur \notin Held)
  /\ [][(job.pc \in {"ramp", "ramp_ping"} /\ faults' > faults) =>
          /\ job'.currentCount = job.currentCount
          /\ connections' = connections
          /\ job'.pc = "ramp" /\ job'.i = job.i + 1
          /\ alive']_vars

\* A job that skipped a failed ping has reached its target of 2 with its
\* second tick.
C15_Witness ==
  /\ Shape(pl.endpoint) = "C" /\ pl.connectionCounts = 2 /\ job.pc = "done"
  /\ faults = 1 /\ Len(res) = 3 /\ job.served = 2
  /\ job.currentCount = 2 /\ Len(connections) = 2

\* The request of the second end-to-end scenario, with every open succeeding.
Scenario2 ==
  /\ Shape(pl.endpoint) = "C" /\ pl.async
  /\ pl.connectionCounts = 5 /\ pl.increasePerInterval = 2
  /\ pl.intervalSec = 1 /\ pl.maintainSec = 3
  /\ faults = 0

Min(a, b) == IF a < b THEN a ELSE b

\* C16, as stated: in the second scenario the acknowledgment does not wait for
\* the job, the number of open resources has reached exactly 5 when ramping
\* stops, and it is 0 after the job has ended.
C16_PeakExactlyFive ==
  Scenario2 =>
    /\ hpc = "respond" => ENABLED Handler_Respond
    /\ OpenCount <= 5
    /\ job.pc \in {"hold", "hold_sleep"} => OpenCount = 5
    /\ job.pc = "done" => OpenCount = 0

\* C16, amended: in the second scenario the acknowledgment does not wait for
\* the job, the number of open resources never exceeds 5 and between batches
\* is 2 for each tick the job has served, up to 5 (so it is 5 when ramping
\* stops exactly if three ticks were served), and it is 0 after the job has
\* ended.
C16_PeakByTicksServed ==
  Scenario2 =>
    /\ hpc = "respond" => ENABLED Handler_Respond
    /\ OpenCount <= 5
    /\ job.pc \in {"select", "hold", "hold_sleep"} =>
         OpenCount = Min(5, 2 * job.served)
    /\ job.pc = "done" => OpenCount = 0

\* The job holds 5 open resources after its third tick and has been acknowledged.
C16_Witness ==
  /\ Scenario2 /\ resp = 200 /\ hpc = "returned"
  /\ job.pc = "hold_sleep" /\ job.served = 3 /\ OpenCount = 5

\* The deadline of a job: job start + maintain_second.
JobDeadline == job.start + pl.maintainSec * Second

\* A cycle of the job starts: its work unit runs.
CycleStarts == job.pc = "loop" /\ job'.pc = "sleep"

\* C17: in Shape A a cycle starts only when no earlier cycle or interval sleep
\* is in progress, and an interval sleep ends only when its time has elapsed;
\* no cycle starts when now >= job start + maintain_second; the job's resource
\* is closed in the step that completes the job; and with maintain_second <= 0
\* the job completes with no cycle run and its resource closed.
C17_SequentialCycles ==
  /\ [](Shape(pl.endpoint) = "A" =>
          /\ job.pc = "loop" => job.wake = 0
          /\ job.pc \in {"loop", "sleep", "close"} => res[job.cur].open
          /\ job.pc = "done" => (~res[job.cur].open /\ res[job.cur].closes = 1)
          /\ (job.pc \in {"close", "done"} /\ pl.maintainSec <= 0) => job.cycles = 0)
  /\ [][Shape(pl.endpoint) = "A" =>
          /\ CycleStarts => now < JobDeadline
          /\ (job.pc = "sleep" /\ job'.pc # "sleep") => (now >= job.wake /\ job'.pc = "loop")
          /\ (job.pc # "done" /\ job'.pc = "done") => (job.pc = "close" /\ ~res'[job.cur].open)]_vars

\* A job with maintain_second <= 0 has completed without a cycle.
C17_Witness ==
  /\ Shape(pl.endpoint) = "A" /\ pl.maintainSec <= 0
  /\ job.pc = "done" /\ job.cycles = 0 /\ ~res[job.cur].open

\* The endpoints whose job is a loop of work units on one resource or none.
LoopEndpoints == {"sql_heavy", "redis_heavy", "flood"}

\* C18: a work unit that fails inside the loop of a job leaves the job in its
\* loop, about to sleep its interval, with its deadline and the response
\* untouched; the loop is left only at the deadline, and the caller of a
\* started job receives 200.
C18_WorkUnitErrorIgnored ==
  /\ [](pl.endpoint \in LoopEndpoints =>
          /\ job.pc \in {"close", "done"} => now >= JobDeadline
          /\ (hpc = "returned" /\ job.pc # "none") => resp = 200)
  /\ [][(pl.endpoint \in LoopEndpoints /\ job.pc = "loop" /\ faults' > faults) =>
          /\ job'.pc = "sleep"
          /\ job'.endTime = job.endTime
          /\ resp' = resp /\ hpc' = hpc
          /\ alive']_vars

\* A synchronous job whose work unit failed has run a further cycle, has
\* completed, and its caller has received 200.
C18_Witness ==
  /\ pl.endpoint \in LoopEndpoints /\ ~pl.async
  /\ faults = 1 /\ job.cycles = 2 /\ job.pc = "done"
  /\ resp = 200 /\ hpc = "returned"

(* ==================== properties of SpecDecode ======================== *)
\* C19: a request whose body failed to decode is answered 400 and is over,
\* and has started no job; the step in which the decoding fails changes no
\* simulation flag, opens no resource and starts no goroutine.
C19_DecodeFailure ==
  /\ [](\A r \in Req :
          rq[r].bindErr # "" =>
            /\ rq[r].status = 400 /\ rq[r].pc = "done"
            /\ rq[r].jpc = "none")
  /\ [][\A r \in Req :
          (rq[r].bindErr = "" /\ rq'[r].bindErr # "") =>
            /\ UNCHANGED <<downtimeActive, netFlags, errFlags>>
            /\ UNCHANGED <<res, connections, wk, job>>
            /\ \A q \in Req : rq'[q].jpc = rq[q].jpc]_vars

\* The second request was answered 400 while the latency that the first one
\* set is in force.
C19_Witness ==
  /\ rq[2].bindErr # "" /\ rq[2].status = 400 /\ rq[2].jpc = "none"
  /\ rq[1].route = "latency" /\ rq[1].jpc = "sleep" /\ activeLatencyMs = 500

\* The JSON value is a string RANDOM:<a>:<b> with a >= b.
InvertedRange(tok) ==
  /\ tok.kind = "string" /\ Len(tok.parts) = 3 /\ tok.parts[1] = "RANDOM"
  /\ tok.parts[2] \in DOMAIN Numerals /\ tok.parts[3] \in DOMAIN Numerals
  /\ Numerals[tok.parts[2]] >= Numerals[tok.parts[3]]

\* C20: a request whose handler decoded a field of the form RANDOM:<a>:<b>
\* with a >= b is answered with the error code INVALID_RANGE.
C20_InvalidRangeCode ==
  \A r \in Req :
    ( /\ rq[r].pc = "done" /\ Passed(r, "handler") /\ rq[r].body.present
      /\ rq[r].body.wellFormed
      /\ \/ rq[r].route # "downtime" /\ InvertedRange(rq[r].body.value)
         \/ InvertedRange(rq[r].body.maintain) )
    => (rq[r].status = 400 /\ rq[r].err = "INVALID_RANGE")

(* ===================== properties of SpecJob ========================== *)
\* C21: a request to an endpoint that depends on an external service whose
\* configuration is missing starts no job and launches no worker, is never
\* answered 200, and once answered has the status 500 and the error code
\* CONFIG_ERROR.
C21_ConfigErrorBeforeJob ==
  (Backend(pl.endpoint) \in {"sql", "redis"} /\ ~configured) =>
    /\ job.pc = "none"
    /\ \A w \in Workers : wk[w].pc = "none"
    /\ resp # 200
    /\ hpc = "returned" => (resp = 500 /\ code = "CONFIG_ERROR")

(* ==================== properties of SpecDecode ======================== *)
\* The JSON value is the exact string RANDOM.
BareRandom(tok) == tok.kind = "string" /\ tok.parts = <<"RANDOM">>

\* C22: a request whose value field (a DuckInt in the latency payload, a
\* DuckFloat in the error-injection payload) is the exact string RANDOM, its
\* other field being valid, is decoded without error.
C22_BareRandomDecodes ==
  \A r \in Req :
    ( /\ rq[r].body.present /\ rq[r].body.wellFormed
      /\ rq[r].route \in {"latency", "error_injection"}
      /\ BareRandom(rq[r].body.value)
      /\ \A m \in DuckInt_UnmarshalJSON(rq[r].body.maintain) : m.ok )
    => rq[r].bindErr = ""

(* ==================== properties of SpecRandom ======================== *)
\* The value has the form RANDOM:<a>:<b> with integers a < b.
ProperRange(parts) ==
  /\ HasRandomPrefix(parts) /\ Len(parts) = 3
  /\ Atoi(parts[2]).ok /\ Atoi(parts[3]).ok
  /\ Atoi(parts[2]).n < Atoi(parts[3]).n

\* C23: a value RANDOM:<a>:<b> with a < b and exactly three parts resolves,
\* as an environment setting and as a DuckInt field alike, to an integer v
\* with a <= v < b; a RANDOM: value with another number of parts is not
\* resolved.
C23_RangeHalfOpen ==
  (resolved # NoOutcome /\ HasRandomPrefix(value)) =>
    /\ ProperRange(value) =>
         /\ resolved.ok
         /\ Atoi(value[2]).n <= resolved.n
         /\ resolved.n < Atoi(value[3]).n
    /\ Len(value) # 3 => ~resolved.ok
\* A DuckInt field resolves RANDOM:-1:2 to 1, the greatest value of its range.
C23_Witness ==
  /\ value = <<"RANDOM", "-1", "2">>
  /\ field = "DuckInt"
  /\ resolved = Ok(1)

(* ==================== properties of SpecSim, continued ================ *)
\* C24: the success response of a control endpoint echoes the value decoded
\* from that same request's payload; for /stress/error_injection, the
\* error_rate of its payload.
C24_EchoesOwnPayload ==
  \A r \in Req :
    (rq[r].route \in ControlRoutes /\ rq[r].status = 200) =>
      rq[r].echo = rq[r].value

\* C25: every JSON error response, written by a handler or by the downtime,
\* packet-loss or error-injection interceptor, has the fields error (an
\* upper-case code), message (lower-case), request and requested_at.
C25_StandardErrorShape ==
  \A r \in Req :
    rq[r].status >= 400 =>
      /\ rq[r].errBody.keys = {"error", "message", "request", "requested_at"}
      /\ rq[r].errBody.error = ToUpper(rq[r].errBody.error)
      /\ rq[r].errBody.message = ToLower(rq[r].errBody.message)

(* ==================== properties of SpecInject ======================== *)
\* The error-injection interceptor has aborted request r.
AbortedByInjection(r) == rq[r].err = "RANDOM_ERROR"

\* C26: a request that reached the error-injection interceptor draws a roll
\* exactly when the interceptor reads the injection as unexpired with a
\* positive rate; having rolled against rate r it is answered 500 exactly when
\* the roll is below r (always for r >= 1) and then its route handler does not
\* run; a request that drew no roll (injection inactive, expired, or r <= 0)
\* is not aborted by the interceptor.
C26_AbortIffRollBelowRate ==
  /\ [](\A r \in Req :
         /\ rq[r].roll # NoRoll =>
              /\ AbortedByInjection(r) <=> rq[r].roll < rq[r].rate
              /\ rq[r].rate >= 100 => AbortedByInjection(r)
              /\ rq[r].rate <= 0 => ~AbortedByInjection(r)
         /\ rq[r].roll = NoRoll => ~AbortedByInjection(r)
         /\ AbortedByInjection(r) =>
              /\ rq[r].status = 500 /\ rq[r].pc = "done"
              /\ ~Passed(r, "handler")
              /\ Passed(r, "downtime") /\ Passed(r, "latency"))
  /\ [][\A r \in Req :
          (rq[r].pc = "error_injection" /\ rq'[r].pc # "error_injection") =>
            /\ rq'[r].pc = "ei_roll" <=>
                 (now < errorInjectionExpiry /\ activeErrorRate > 0)
            /\ rq'[r].pc # "ei_roll" => rq'[r].pc = "handler"
          ]_vars
\* A plain request met an injection of rate 1, drew the highest roll and was
\* aborted before its handler.
C26_Witness ==
  \E r \in Req :
    /\ rq[r].route = "simple" /\ rq[r].rate = 100 /\ rq[r].roll = 99
    /\ rq[r].status = 500 /\ AbortedByInjection(r) /\ ~Passed(r, "handler")

(* ==================== properties of SpecLog =========================== *)
\* The keys of the placeholders of a format, in order.
RECURSIVE KeysOf(_)
KeysOf(format) ==
  IF format = <<>> THEN <<>>
  ELSE (IF Head(format).kind = "placeholder" THEN <<KeyOf(Head(format).parts)>> ELSE <<>>)
       \o KeysOf(Tail(format))
Occurrences(keys, k) == Cardinality({i \in 1..Len(keys) : keys[i] = k})
MandatoryKeys == {"time", "status_code", "method", "path", "client_ip"}
OptionalKeys == {"latency", "user_agent", "protocol", "request_size", "response_size"}
RandomSelected == Selects(logFormat, "random") /\ globalLogFormat # <<>>

\* C27: a format produced by the random generator has each of the five
\* mandatory keys exactly once, at most two optional keys, at most seven
\* placeholders, and no key twice.
C27_RandomFormatKeys ==
  RandomSelected =>
    LET keys == KeysOf(globalLogFormat)
    IN  /\ \A k \in MandatoryKeys : Occurrences(keys, k) = 1
        /\ \A i \in 1..Len(keys) : keys[i] \in MandatoryKeys \cup OptionalKeys
        /\ Cardinality({i \in 1..Len(keys) : keys[i] \in OptionalKeys}) <= 2
        /\ Len(keys) <= 7
        /\ \A k \in OptionalKeys : Occurrences(keys, k) <= 1
\* A generated format of seven placeholders, its time placeholder carrying a
\* format with colons, each placeholder in brackets and followed by "-".
C27_Witness ==
  /\ RandomSelected
  /\ Len(KeysOf(globalLogFormat)) = 7
  /\ Len(globalLogFormat) = 14
  /\ \E i \in 1..Len(globalLogFormat) :
       /\ globalLogFormat[i].parts = <<"time", "%Y", "%m", "%dT%H", "%M", "%S">>
       /\ globalLogFormat[i].open = "["

\* C28: with LOG_FORMAT selecting random, the format generated by initConfig
\* is the one every log line is rendered from, by the request logger and by
\* the synthetic log generator alike, and once set it never changes.
C28_RandomFormatFrozen ==
  /\ [](RandomSelected /\ lineOut.by # "none" => lineOut.format = globalLogFormat)
  /\ [][globalLogFormat # <<>> => globalLogFormat' = globalLogFormat]_vars

\* The keys a renderer knows: the request logger's ten, and cookies besides
\* for the synthetic generator.
ClosedKeys(by) ==
  MandatoryKeys \cup OptionalKeys
  \cup (IF by = "GenerateRandomLogMessage" THEN {"cookies"} ELSE {})
FormatRenderers == {"LoggerMiddleware", "LoggerMiddleware_part_005", "GenerateRandomLogMessage"}

C30_OneSecondLatency ==
  ( /\ lineOut.by \in {"LoggerMiddleware", "LoggerMiddleware_part_005"}
    /\ lineOut.latency = 1000000000 ) =>
    \A i \in 1..Len(lineOut.format) :
      LET tok == lineOut.format[i]
      IN  (tok.kind = "placeholder" /\ KeyOf(tok.parts) = "latency") =>
            /\ tok.parts = <<"latency", "s">> => lineOut.text[i].val = Itoa(1)
            /\ tok.parts = <<"latency", "ms">> => lineOut.text[i].val = Itoa(1000)
            /\ tok.parts = <<"latency">> =>
                 lineOut.text[i].val = Number(1, <<0, 0, 0>>, "s")

(* ===================== properties of SpecLeak ========================= *)
\* C31: when a memory-leak job with leak_size_mb = L and maintain_second = D
\* has completed, the leak store holds exactly max(1, D / 0.5 s) blocks of
\* (L MiB div allocations) bytes each, whichever of the final tick and the
\* completion timer the job took first.
C31_LeakAmount ==
  (pl.endpoint = "memory_leak" /\ job.pc = "done") =>
    /\ Len(memoryLeakStore) = Allocations(pl.maintainSec)
    /\ \A k \in DOMAIN memoryLeakStore :
         memoryLeakStore[k] = BytesPerAlloc(pl.leakSizeMB, pl.maintainSec)

(* ==================== properties of SpecConfig ======================== *)
\* The source of highest priority among those the settings provide.
FirstProvided(e) ==
  IF e.secret # "unset" /\ e.region THEN "secret"
  ELSE IF e.dbinfo # "unset" THEN "dbinfo"
  ELSE "vars"

\* C32: the getters take the configuration from <X>_SECRET with AWS_REGION
\* first, then from <X>_DBINFO, then from the individual variables; what a
\* getter returns, configuration or error, comes from the first source that is
\* provided and never from one below it.
C32_SourceByPriority ==
  cfg.by # "none" => cfg.source = FirstProvided(env)

(* ============= properties of overlapping control requests ============= *)
\* The simulation of `route` is in effect: its flag is raised or positive.
InEffect(route) ==
  CASE route = "downtime" -> downtimeActive
    [] route = "latency" -> activeLatencyMs > 0
    [] route = "packet_loss" -> activePacketLoss > 0
    [] OTHER -> activeErrorRate > 0

\* Request r has armed its simulation and its own duration has not elapsed.
Running(r) ==
  /\ rq[r].route \in ControlRoutes
  /\ rq[r].jpc = "sleep"
  /\ now < rq[r].jwake

\* C33: a simulation armed by a control request stays in effect until that
\* request's own expiry, whatever other control requests for the same
\* simulation start or finish in the meantime.
C33_ArmedUntilOwnExpiry ==
  \A r \in Req : Running(r) => InEffect(rq[r].route)

\* Request r has written its flag: its set step has been taken.
Armed(r) == rq[r].jpc \in {"sleep", "done"}

\* C34: when a control request with async = true has been acknowledged, its
\* simulation flag has already been armed, so that a request starting after
\* the acknowledgment and before the expiry meets the simulation.
C34_ArmedAtAcknowledgment ==
  \A r \in Req :
    (rq[r].route \in ControlRoutes /\ rq[r].async /\ rq[r].status = 200) => Armed(r)

\* No simulation is active.
SimulationsOff ==
  /\ ~downtimeActive
  /\ activeLatencyMs = 0
  /\ activePacketLoss = 0
  /\ activeErrorRate = 0

\* The durations of all control requests of `route` armed so far had elapsed
\* when request s read its clock in the network interceptor.
AllElapsedFor(s, route) ==
  \A c \in Req : (rq[c].route = route /\ Armed(c)) => rq[s].tnow >= rq[c].jwake

\* C35: after any sequence of control requests, once the durations of all of
\* them have elapsed no simulation is active any more: when no control job is
\* left between arming its flag and the reset that follows its sleep, downtime
\* is off and latency, packet loss and error rate are 0; and a request whose
\* clock reading is at or after the expiry of every latency, packet-loss and
\* error-injection request is not delayed, not dropped and not failed, even
\* where a reset step is still outstanding.
C35_QuietAfterAllElapsed ==
  /\ (\A r \in Req : rq[r].jpc # "sleep") => SimulationsOff
  /\ \A s \in Req :
       /\ (Passed(s, "latency") /\ AllElapsedFor(s, "latency")) => ~rq[s].delayed
       /\ (Passed(s, "packet_loss") /\ AllElapsedFor(s, "packet_loss"))
            => rq[s].err # "SERVICE_UNAVAILABLE"
       /\ (Passed(s, "latency") /\ AllElapsedFor(s, "error_injection"))
            => rq[s].err # "RANDOM_ERROR"

\* Two control requests have run to the end of their durations and reset
\* their flags, and a plain request that read the latency after its window
\* had expired, but before the job reset the value, was served undelayed.
C35_Witness ==
  /\ \E c, d \in Req :
       /\ c # d /\ rq[c].route = "latency" /\ rq[d].route \in ControlRoutes
       /\ rq[c].jpc = "done" /\ rq[d].jpc = "done"
       /\ \E s \in Req :
            /\ rq[s].route = "simple" /\ rq[s].status = 200 /\ ~rq[s].delayed
            /\ rq[s].latency > 0 /\ rq[s].tnow >= rq[c].jwake
  /\ SimulationsOff

(* ==================== properties of SpecJobLive ======================= *)
\* The request is over and its job has come to its end in a running process:
\* the handler has returned, the job, if one was started, has returned or its
\* panic was recovered by the handler, and no resource is open.
Completed == alive /\ RequestOver /\ OpenCount = 0

\* C36: every stress job with a finite maintain_second terminates: the loops
\* of the three shapes exit after the deadline, the job's resources are
\* released, a synchronous request receives its response, and an asynchronous
\* job runs to its own completion whatever requests follow.
C36_JobTerminates ==
  (pl.endpoint # "crash") => <>Completed

(* ====================== properties of SpecPoll ======================== *)
Max(a, b) == IF a >= b THEN a ELSE b

C38_IntOrErrorNeverPanic ==
  (field = "env" /\ resolved # NoOutcome) => resolved # Panic

(* ======================= properties of SpecLog ======================== *)
\* logger_middleware.go:60-125: a placeholder with a unit specifier is rendered
\* through the branch for no unit when its value is the one the bare key gets.
NoUnitFallback(parts, c, latency) ==
  /\ Len(parts) >= 2
  /\ resolvePlaceholder(parts, c, latency) = resolvePlaceholder(<<parts[1]>>, c, latency)

\* C39: every unit specifier the random format generator emits for a key
\* (latency, request_size, response_size, time) is one the placeholder
\* resolver recognises for that key: no placeholder of a generated format that
\* carries a unit is rendered through the resolver's branch for no unit.
C39_GeneratedUnitsRecognised ==
  RandomSelected =>
    \A i \in 1..Len(globalLogFormat) : \A latency \in Latencies :
      globalLogFormat[i].kind # "literal" =>
        ~NoUnitFallback(globalLogFormat[i].parts, Context, latency)

====
